---- MODULE Spec2Model ----
(***************************************************************************)
(* Recipe generator application: the AI recipe service with its fallback   *)
(* chain and rule-based composer (AIRecipeService), the local persistence  *)
(* service (DatabaseService) and the generator screen that drives them     *)
(* (RecipeGeneratorScreen).                                                *)
(*                                                                         *)
(* JavaScript strings are TLA+ strings; an optional value (a field that    *)
(* may be undefined) is a sequence of length 0 or 1.                       *)
(***************************************************************************)
EXTENDS Integers, Sequences, FiniteSets, TLC

VARIABLES
    apiKey,            \* AIRecipeService.apiKey is non-empty
    svc,               \* the running AIRecipeService.generateRecipe call
    request,           \* its argument, a RecipeGenerationRequest
    categorized,       \* the result of categorizeIngredients, if it called it
    estServings,       \* servings argument of createIngredientsWithQuantities } in the run
    nutrServings,      \* servings argument of calculateRecipeNutrition        } in progress
    nextId,            \* source of fresh recipe ids (generateId)
    ingredients,       \* screen state: ingredient list
    servings,          \* screen state: text of the servings field
    isGenerating,      \* screen state
    isImageProcessing, \* screen state
    imgClosure,        \* ingredient list captured by the pending processImage call
    hpc,               \* the await the screen's generateRecipe handler is suspended at
    hrecipe,           \* recipe held by the handler after the service returned
    inFlight,          \* runs of the handler that passed its guard and have not finished
    db,                \* the running DatabaseService call
    savedRecipes,      \* AsyncStorage 'saved_recipes'
    recipeHistory,     \* AsyncStorage 'recipe_history'
    lastAdded,         \* id and return value of the last addToRecipeHistory call
    vision,            \* the running IngredientRecognitionService.recognizeIngredients call
    suggest,           \* the last getIngredientSuggestions call: input and result
    calc,              \* the last NutritionCalculatorService call: arguments and result
    analysis,          \* the last getDetailedNutritionAnalysis call: argument and result
    conv,              \* the last convertToGrams call: implementation, arguments and result
    ops,               \* the running DatabaseService call of each caller
    detail,            \* RecipeDetailScreen state: recipe, isSaved, isLoading
    audit              \* what the DatabaseService calls returned so far

vars ==
    << apiKey, request, svc, categorized, estServings, nutrServings, nextId,
       ingredients, servings, isGenerating, isImageProcessing, imgClosure,
       hpc, hrecipe, inFlight,
       db, savedRecipes, recipeHistory, lastAdded,
       vision, suggest, calc, analysis, conv, ops, detail, audit >>

\* what the service itself writes
svcVars ==
    << apiKey, request, categorized, estServings, nextId >>

\* what the generateRecipe handler of the screen writes once it runs
handlerVars ==
    << nutrServings, isGenerating, hpc, hrecipe, inFlight, db >>

\* what DatabaseService calls made side by side write besides the storage
storeVars ==
    << ops, detail, audit >>

\* what the recognition service and the nutrition calculator write when they
\* are called on their own
libraryVars ==
    << vision, suggest, calc, analysis, conv, storeVars >>

\* what the other handlers of the screen write
screenVars ==
    << ingredients, servings, isImageProcessing, imgClosure >>

storageVars ==
    << savedRecipes, recipeHistory, lastAdded >>

-----------------------------------------------------------------------------
(* Bounds                                                                  *)

MaxIngredients ==
    2

MaxRecipes ==
    1

-----------------------------------------------------------------------------
(* JavaScript string and number primitives                                 *)

Undefined ==
    << >>

Some(v) ==
    << v >>

OrDefault(opt, d) ==
    IF opt = Undefined THEN d ELSE opt[1]

\* a || d for a number: 0 (like undefined and NaN) is falsy
NumOr(opt, d) ==
    IF opt = Undefined \/ opt = Some(0) THEN d ELSE opt[1]

includes(s, t) ==
    \E i \in 0..(Len(s) - Len(t)) : SubSeq(s, i + 1, i + Len(t)) = t

DigitChars ==
    "0123456789"

charAt(s, i) ==
    SubSeq(s, i, i)

\* the letters toLowerCase changes
LowerOf ==
    ("A" :> "a") @@ ("B" :> "b") @@ ("C" :> "c") @@ ("D" :> "d") @@ ("E" :> "e") @@
    ("F" :> "f") @@ ("G" :> "g") @@ ("H" :> "h") @@ ("I" :> "i") @@ ("J" :> "j") @@
    ("K" :> "k") @@ ("L" :> "l") @@ ("M" :> "m") @@ ("N" :> "n") @@ ("O" :> "o") @@
    ("P" :> "p") @@ ("Q" :> "q") @@ ("R" :> "r") @@ ("S" :> "s") @@ ("T" :> "t") @@
    ("U" :> "u") @@ ("V" :> "v") @@ ("W" :> "w") @@ ("X" :> "x") @@ ("Y" :> "y") @@
    ("Z" :> "z")

UpperLetters ==
    DOMAIN LowerOf

lowerChar(c) ==
    IF c \in UpperLetters THEN LowerOf[c] ELSE c

RECURSIVE lowerFrom(_, _)
lowerFrom(s, i) ==
    IF i > Len(s) THEN "" ELSE lowerChar(charAt(s, i)) \o lowerFrom(s, i + 1)

toLowerCase(s) ==
    IF \A i \in 1..Len(s) : charAt(s, i) \notin UpperLetters THEN s ELSE lowerFrom(s, 1)

RECURSIVE trimStart(_)
trimStart(s) ==
    IF Len(s) > 0 /\ charAt(s, 1) = " " THEN trimStart(SubSeq(s, 2, Len(s))) ELSE s

RECURSIVE trimEnd(_)
trimEnd(s) ==
    IF Len(s) > 0 /\ charAt(s, Len(s)) = " " THEN trimEnd(SubSeq(s, 1, Len(s) - 1)) ELSE s

trim(s) ==
    trimEnd(trimStart(s))

isDigit(c) ==
    \E k \in 1..10 : charAt(DigitChars, k) = c

digitValue(c) ==
    (CHOOSE k \in 1..10 : charAt(DigitChars, k) = c) - 1

\* value of the longest run of digits at the start of s, as << value, length >>
RECURSIVE leadingDigits(_, _, _)
leadingDigits(s, acc, n) ==
    IF Len(s) > 0 /\ isDigit(charAt(s, 1))
    THEN leadingDigits(SubSeq(s, 2, Len(s)), 10 * acc + digitValue(charAt(s, 1)), n + 1)
    ELSE << acc, n >>

\* parseInt(s): leading blanks, an optional sign, then digits; NaN is Undefined
parseInt(s) ==
    LET t    == trimStart(s)
        neg  == Len(t) > 0 /\ charAt(t, 1) = "-"
        sign == Len(t) > 0 /\ (charAt(t, 1) = "-" \/ charAt(t, 1) = "+")
        body == IF sign THEN SubSeq(t, 2, Len(t)) ELSE t
        d    == leadingDigits(body, 0, 0)
    IN  IF d[2] = 0 THEN Undefined
        ELSE Some(IF neg THEN 0 - d[1] ELSE d[1])

RECURSIVE natToString(_)
natToString(n) ==
    IF n < 10 THEN charAt(DigitChars, n + 1)
    ELSE natToString(n \div 10) \o charAt(DigitChars, (n % 10) + 1)

\* Number.prototype.toString for an integer
toString(n) ==
    IF n < 0 THEN "-" \o natToString(0 - n) ELSE natToString(n)

\* Math.ceil(a / b) for b > 0
ceilDiv(a, b) ==
    0 - ((0 - a) \div b)

Min(a, b) ==
    IF a < b THEN a ELSE b

\* array.some(x => s.includes(x))
someIncluded(s, items) ==
    \E k \in 1..Len(items) : includes(s, items[k])

\* a || d for a string: '' (like undefined) is falsy
StrOr(opt, d) ==
    IF opt = Undefined \/ opt = Some("") THEN d ELSE opt[1]

-----------------------------------------------------------------------------
(* AIRecipeService: the rule-based composer                                *)

CategoryOrder ==
    << "proteins", "vegetables", "grains", "dairy", "spices" >>

BucketNames ==
    { "proteins", "vegetables", "grains", "dairy", "spices", "others" }

categoryMappings ==
    [ proteins   |-> << "chicken", "beef", "pork", "fish", "egg", "tofu", "beans",
                        "lentils", "turkey", "salmon", "tuna" >>,
      vegetables |-> << "tomato", "onion", "garlic", "carrot", "potato", "bell pepper",
                        "spinach", "broccoli", "cucumber", "lettuce", "mushroom",
                        "celery", "zucchini" >>,
      grains     |-> << "rice", "pasta", "bread", "quinoa", "oats", "flour", "noodles",
                        "barley" >>,
      dairy      |-> << "milk", "cheese", "butter", "cream", "yogurt" >>,
      spices     |-> << "salt", "pepper", "basil", "oregano", "thyme", "cumin",
                        "paprika", "garlic powder", "onion powder" >> ]

\* items.some(item => lowerIngredient.includes(item) || item.includes(lowerIngredient))
matchesCategory(lowerIngredient, items) ==
    \E k \in 1..Len(items) :
        includes(lowerIngredient, items[k]) \/ includes(items[k], lowerIngredient)

\* the loop over Object.entries(categoryMappings) without its break
RECURSIVE scanCategoriesNoBreak(_, _)
scanCategoriesNoBreak(lowerIngredient, i) ==
    IF i > Len(CategoryOrder) THEN << >>
    ELSE IF matchesCategory(lowerIngredient, categoryMappings[CategoryOrder[i]])
         THEN << CategoryOrder[i] >> \o scanCategoriesNoBreak(lowerIngredient, i + 1)
         ELSE scanCategoriesNoBreak(lowerIngredient, i + 1)

\* the loop over Object.entries(categoryMappings): the categories the
\* ingredient is pushed to, from entry i on
RECURSIVE scanCategories(_, _)
scanCategories(lowerIngredient, i) ==
    IF i > Len(CategoryOrder) THEN << >>
    ELSE IF matchesCategory(lowerIngredient, categoryMappings[CategoryOrder[i]])
         THEN << CategoryOrder[i] >>
         ELSE scanCategories(lowerIngredient, i + 1)

\* body of the forEach: every bucket the ingredient is pushed to
orOthers(hit) ==
    IF hit = << >> THEN << "others" >> ELSE hit

pushedTo(ingredient) ==
    orOthers(scanCategories(toLowerCase(ingredient), 1))

\* the ingredients pushed to one bucket, in input order
RECURSIVE bucketOf(_, _, _, _)
bucketOf(category, ings, pushes, k) ==
    IF k > Len(ings) THEN << >>
    ELSE [ n \in 1..Len(SelectSeq(pushes[k], LAMBDA c : c = category)) |-> ings[k] ]
         \o bucketOf(category, ings, pushes, k + 1)

\* the categories object after the forEach, pushes[k] being the buckets
\* the k-th ingredient was pushed to
bucketsAfter(ings, pushes) ==
    [ category \in BucketNames |-> bucketOf(category, ings, pushes, 1) ]

categorizeIngredients(ings) ==
    bucketsAfter(ings, [ k \in 1..Len(ings) |-> pushedTo(ings[k]) ])

RECURSIVE join(_, _)
join(strs, sep) ==
    IF Len(strs) = 0 THEN ""
    ELSE IF Len(strs) = 1 THEN strs[1]
    ELSE strs[1] \o sep \o join(Tail(strs), sep)

\* slice(0, n)
sliceTo(s, n) ==
    SubSeq(s, 1, Min(n, Len(s)))

\* pattern is Math.floor(Math.random() * namePatterns.length)
generateRecipeName(ings, mealType, pattern) ==
    IF Len(ings) = 0 THEN "Mixed " \o mealType
    ELSE CASE pattern = 0 -> join(ings, " and ") \o " " \o mealType
           [] pattern = 1 -> ings[1] \o " with " \o join(Tail(ings), " and ")
           [] pattern = 2 -> join(ings, "-") \o " Delight"
           [] OTHER       -> "Homestyle " \o join(ings, " ") \o " Bowl"

\* a step of the composer: the template, the names spliced into it and the
\* minutes spliced into it, in tenths of a minute
Step(kind, items, tenths) ==
    [ kind |-> kind, items |-> items, tenths |-> tenths ]

TextStep(text) ==
    [ kind |-> "text", items |-> << text >>, tenths |-> 0 ]

generateCookingSteps(cat, cookingTime) ==
    LET proteins   == cat["proteins"]
        vegetables == cat["vegetables"]
        grains     == cat["grains"]
        spices     == cat["spices"]
        anyLower(list, words) ==
            \E k \in 1..Len(list) : someIncluded(toLowerCase(list[k]), words)
        hardVeggies ==
            SelectSeq(vegetables,
                      LAMBDA v : someIncluded(toLowerCase(v), << "carrot", "potato", "onion" >>))
        softVeggies ==
            SelectSeq(vegetables,
                      LAMBDA v : ~ \E k \in 1..Len(hardVeggies) : hardVeggies[k] = v)
        proteinSteps ==
            IF Len(proteins) > 0
            THEN IF anyLower(proteins, << "chicken", "beef", "pork" >>)
                 THEN << Step("cook-protein", proteins, Min(cookingTime * 4, 150)) >>
                 ELSE IF anyLower(proteins, << "egg" >>)
                      THEN << Step("beat-eggs", << >>, 0) >>
                      ELSE << >>
            ELSE << >>
        vegetableSteps ==
            IF Len(vegetables) > 0
            THEN (IF Len(hardVeggies) > 0
                  THEN << Step("hard-vegetables", hardVeggies, Min(cookingTime * 3, 100)) >>
                  ELSE << >>)
                 \o
                 (IF Len(softVeggies) > 0
                  THEN << Step("soft-vegetables", softVeggies, Min(cookingTime * 2, 50)) >>
                  ELSE << >>)
            ELSE << >>
        grainSteps ==
            IF Len(grains) > 0
            THEN IF anyLower(grains, << "rice" >>)
                 THEN << Step("rice", << >>, 0) >>
                 ELSE IF anyLower(grains, << "pasta" >>)
                      THEN << Step("pasta", << >>, 0) >>
                      ELSE << >>
            ELSE << >>
        spiceSteps ==
            IF Len(spices) > 0 THEN << Step("season", spices, 0) >> ELSE << >>
    IN  << Step("prep", << >>, 0) >>
        \o proteinSteps \o vegetableSteps \o grainSteps \o spiceSteps
        \o << Step("stir", << >>, 0), Step("serve", << >>, 0) >>

\* the chain with the garlic/ginger test in front of the salt/pepper test
quantityForGarlicFirst(lowerIngredient, servingCount) ==
        IF someIncluded(lowerIngredient, << "garlic", "ginger" >>)
        THEN [ quantity |-> "2", unit |-> "cloves" ]
        ELSE IF someIncluded(lowerIngredient, << "salt", "pepper" >>)
        THEN [ quantity |-> "1", unit |-> "tsp" ]
        ELSE IF someIncluded(lowerIngredient, << "onion", "tomato", "potato" >>)
        THEN [ quantity |-> toString(ceilDiv(servingCount, 2)), unit |-> "medium" ]
        ELSE IF someIncluded(lowerIngredient, << "rice", "pasta" >>)
        THEN [ quantity |-> toString(ceilDiv(servingCount, 4)), unit |-> "cup" ]
        ELSE IF someIncluded(lowerIngredient, << "oil", "butter" >>)
        THEN [ quantity |-> "2", unit |-> "tbsp" ]
        ELSE [ quantity |-> toString(ceilDiv(servingCount, 2)), unit |-> "piece" ]

\* the quantity and unit chosen for one ingredient name
quantityFor(lowerIngredient, servingCount) ==
        IF someIncluded(lowerIngredient, << "salt", "pepper" >>)
        THEN [ quantity |-> "1", unit |-> "tsp" ]
        ELSE IF someIncluded(lowerIngredient, << "garlic", "ginger" >>)
        THEN [ quantity |-> "2", unit |-> "cloves" ]
        ELSE IF someIncluded(lowerIngredient, << "onion", "tomato", "potato" >>)
        THEN [ quantity |-> toString(ceilDiv(servingCount, 2)), unit |-> "medium" ]
        ELSE IF someIncluded(lowerIngredient, << "rice", "pasta" >>)
        THEN [ quantity |-> toString(ceilDiv(servingCount, 4)), unit |-> "cup" ]
        ELSE IF someIncluded(lowerIngredient, << "oil", "butter" >>)
        THEN [ quantity |-> "2", unit |-> "tbsp" ]
        ELSE [ quantity |-> toString(ceilDiv(servingCount, 2)), unit |-> "piece" ]

estimateQuantity(ingredient, servingCount) ==
    quantityFor(toLowerCase(ingredient), servingCount)

ingredientOf(index, name, estimate) ==
    [ id       |-> "ing_" \o toString(index),
      name     |-> name,
      quantity |-> estimate.quantity,
      unit     |-> estimate.unit,
      category |-> "" ]

createIngredientsWithQuantities(ings, servingCount) ==
    [ k \in 1..Len(ings) |->
        ingredientOf(k - 1, ings[k], estimateQuantity(ings[k], servingCount)) ]

cuisineFor(ingredientNames) ==
        IF someIncluded(ingredientNames, << "soy sauce", "ginger", "rice" >>)
        THEN "Asian"
        ELSE IF someIncluded(ingredientNames, << "pasta", "tomato", "basil" >>)
        THEN "Italian"
        ELSE IF someIncluded(ingredientNames, << "cumin", "coriander", "turmeric" >>)
        THEN "Indian"
        ELSE IF someIncluded(ingredientNames, << "lime", "cilantro", "chili" >>)
        THEN "Mexican"
        ELSE "International"

determineCuisine(recipeIngredients) ==
    cuisineFor(join([ k \in 1..Len(recipeIngredients) |->
                        toLowerCase(recipeIngredients[k].name) ], " "))

\* generateTags without the tags it pushes unconditionally
generateTagsConditionalOnly(cat, mealType) ==
    (IF Len(cat["proteins"]) = 0 THEN << "vegetarian" >> ELSE << >>)
    \o (IF Len(cat["dairy"]) = 0 /\ Len(cat["proteins"]) = 0 THEN << "vegan" >> ELSE << >>)
    \o (IF Len(cat["vegetables"]) > Len(cat["proteins"]) THEN << "healthy" >> ELSE << >>)

generateTags(cat, mealType) ==
    << toLowerCase(mealType) >>
    \o (IF Len(cat["proteins"]) = 0 THEN << "vegetarian" >> ELSE << >>)
    \o (IF Len(cat["dairy"]) = 0 /\ Len(cat["proteins"]) = 0 THEN << "vegan" >> ELSE << >>)
    \o (IF Len(cat["vegetables"]) > Len(cat["proteins"]) THEN << "healthy" >> ELSE << >>)
    \o << "homemade", "easy" >>

\* score = 0.3 * stepCount + 0.01 * cookingTime + 0.1 * ingredientCount, in hundredths
calculateDifficulty(stepCount, cookingTime, ingredientCount) ==
    LET score == 30 * stepCount + cookingTime + 10 * ingredientCount
    IN  IF score < 300 THEN "Easy" ELSE IF score < 600 THEN "Medium" ELSE "Hard"

\* nutrition: calories and sodium are whole numbers, the other fields are in
\* tenths of a gram
ZeroNutrition ==
    [ calories |-> 0, protein |-> 0, carbs |-> 0, fat |-> 0, fiber |-> 0,
      sugar |-> 0, sodium |-> 0 ]

\* the Recipe object literal of createRuleBasedRecipe
ruleBasedRecipeOf(id, recipeName, recipeIngredients, steps, cookingTime, servingCount, tags) ==
    [ id          |-> id,
      name        |-> recipeName,
      ingredients |-> recipeIngredients,
      steps       |-> steps,
      cookingTime |-> cookingTime,
      servings    |-> servingCount,
      difficulty  |-> calculateDifficulty(Len(steps), cookingTime, Len(recipeIngredients)),
      cuisine     |-> determineCuisine(recipeIngredients),
      tags        |-> tags,
      nutrition   |-> ZeroNutrition ]

createRuleBasedRecipe(categorizedIngredients, mealType, cookingTime, servingCount, id, pattern) ==
    ruleBasedRecipeOf(
        id,
        generateRecipeName(
            sliceTo(categorizedIngredients["proteins"]
                    \o categorizedIngredients["vegetables"]
                    \o categorizedIngredients["grains"], 3),
            mealType, pattern),
        createIngredientsWithQuantities(
            categorizedIngredients["proteins"] \o categorizedIngredients["vegetables"]
            \o categorizedIngredients["grains"] \o categorizedIngredients["dairy"]
            \o categorizedIngredients["spices"] \o categorizedIngredients["others"],
            servingCount),
        generateCookingSteps(categorizedIngredients, cookingTime),
        cookingTime, servingCount,
        generateTags(categorizedIngredients, mealType))

\* the values the destructuring of the request yields
requestMealType(req) ==
    OrDefault(req.mealType, "Dinner")

requestCookingTime(req) ==
    OrDefault(req.cookingTime, 30)

requestServings(req) ==
    OrDefault(req.servings, 4)

\* generateRuleBasedRecipe once categorizeIngredients has returned
ruleBasedResponse(req, categorizedIngredients, id, pattern) ==
    [ success |-> TRUE,
      data    |-> Some(createRuleBasedRecipe(categorizedIngredients,
                                             requestMealType(req),
                                             requestCookingTime(req),
                                             requestServings(req), id, pattern)),
      message |-> "Recipe generated using smart cooking rules",
      error   |-> "" ]

generateRuleBasedRecipe(req, id, pattern) ==
    ruleBasedResponse(req, categorizeIngredients(req.ingredients), id, pattern)

-----------------------------------------------------------------------------
(* AIRecipeService: responses of the AI providers and their parsing        *)

\* the object JSON.parse yields for a response; every field may be missing
Payload(name, ings, steps, cookingTime, servingCount, tags, nutrition) ==
    [ name |-> name, ingredients |-> ings, steps |-> steps,
      cookingTime |-> cookingTime, servings |-> servingCount,
      difficulty |-> Undefined, cuisine |-> Undefined,
      tags |-> tags, nutrition |-> nutrition ]

EmptyPayload ==
    Payload(Undefined, Undefined, Undefined, Undefined, Undefined, Undefined, Undefined)

PayloadIngredients ==
    << [ name |-> "egg", quantity |-> Some("2"), unit |-> Undefined ],
       [ name |-> "rice", quantity |-> Some("1"), unit |-> Some("cup") ] >>

FullPayload ==
    Payload(Some("Egg Fried Rice"), Some(PayloadIngredients),
            Some(<< "Cook the rice", "Fry the egg" >>), Some(20), Some(2),
            Some(<< "quick" >>),
            Some([ calories |-> 350, protein |-> 250, carbs |-> 300, fat |-> 150,
                   fiber |-> 50, sugar |-> 80, sodium |-> 500 ]))

\* a recipe without nutrition whose servings field is zero / negative
ZeroServingsPayload ==
    Payload(Some("Rice"), Some(PayloadIngredients), Some(<< "Cook the rice" >>),
            Undefined, Some(0), Undefined, Undefined)

NegativeServingsPayload ==
    Payload(Some("Rice"), Some(PayloadIngredients), Some(<< "Cook the rice" >>),
            Undefined, Some(0 - 1), Undefined, Undefined)

Payloads ==
    { EmptyPayload, FullPayload, ZeroServingsPayload, NegativeServingsPayload }

\* the message content of the primary provider's response:
\*   "json"       text holding a JSON object, parsed into data
\*   "text"       text that holds no JSON
\*   "null"       content is not a string
\*   "badschema"  a JSON object whose ingredients field is not an array
Contents ==
    [ kind : { "json" }, data : Payloads ]
    \cup [ kind : { "text", "null", "badschema" }, data : { EmptyPayload } ]

\* outcomes of axios.post: it rejects ("network", "status": a non-2xx
\* status), resolves with a body without choices ("nochoices"), or resolves
\* with a message content ("ok")
PrimaryOutcomes ==
    [ kind : { "network", "status", "nochoices" },
      content : { [ kind |-> "text", data |-> EmptyPayload ] } ]
    \cup [ kind : { "ok" }, content : Contents ]

\* the body of the alternate provider's response:
\*   "json"       an array whose generated_text holds a JSON object
\*   "notarray"   not an array, or no generated_text
\*   "text"       generated_text without a JSON object
\*   "badjson"    generated_text with braces that JSON.parse rejects
\*   "badschema"  a JSON object whose ingredients field is not an array
AlternativeBodies ==
    [ kind : { "json" }, data : { FullPayload, NegativeServingsPayload } ]
    \cup [ kind : { "notarray", "text", "badjson", "badschema" }, data : { EmptyPayload } ]

\* outcomes of fetch: it rejects ("network"), resolves with ok = false
\* ("notok"), resolves but response.json() rejects ("jsonthrows"), or
\* resolves with a body ("ok")
AlternativeOutcomes ==
    [ kind : { "network", "notok", "jsonthrows" },
      body : { [ kind |-> "notarray", data |-> EmptyPayload ] } ]
    \cup [ kind : { "ok" }, body : AlternativeBodies ]

ApiResponse(success, data, message, error) ==
    [ success |-> success, data |-> data, message |-> message, error |-> error ]

\* parsedData.ingredients?.map(...) || []; an entry is an object with a name
\* or the name itself (ing.name || ing)
mapIngredients(ings, defaultQuantity, defaultUnit) ==
    IF ings = Undefined THEN << >>
    ELSE [ index \in 1..Len(ings[1]) |->
             [ id       |-> "ing_" \o toString(index - 1),
               name     |-> ings[1][index].name,
               quantity |-> StrOr(ings[1][index].quantity, defaultQuantity),
               unit     |-> StrOr(ings[1][index].unit, defaultUnit),
               category |-> "" ] ]

textSteps(steps) ==
    [ k \in 1..Len(steps) |-> TextStep(steps[k]) ]

\* the recipe of the catch branch of parseRecipeResponse
SimpleRecipe(id) ==
    [ id          |-> id,
      name        |-> "Simple Recipe",
      ingredients |-> << >>,
      steps       |-> << TextStep("Prepare and cook ingredients as desired") >>,
      cookingTime |-> 30,
      servings    |-> 4,
      difficulty  |-> "Easy",
      cuisine     |-> "International",
      tags        |-> << "simple" >>,
      nutrition   |-> ZeroNutrition ]

\* JSON.parse and the field accesses succeed for this content
parses(content) ==
    content.kind = "json"

parseRecipeResponse(content, id) ==
    IF parses(content)
    THEN LET parsedData == content.data
         IN  [ id          |-> id,
               name        |-> StrOr(parsedData.name, "Generated Recipe"),
               ingredients |-> mapIngredients(parsedData.ingredients, "", ""),
               steps       |-> textSteps(OrDefault(parsedData.steps, << >>)),
               cookingTime |-> NumOr(parsedData.cookingTime, 30),
               servings    |-> NumOr(parsedData.servings, 4),
               difficulty  |-> StrOr(parsedData.difficulty, "Medium"),
               cuisine     |-> StrOr(parsedData.cuisine, ""),
               tags        |-> OrDefault(parsedData.tags, << >>),
               nutrition   |-> OrDefault(parsedData.nutrition, ZeroNutrition) ]
    ELSE SimpleRecipe(id)

createRecipeFromData(parsedData, req, id, pattern) ==
    [ id          |-> id,
      name        |-> StrOr(parsedData.name,
                            generateRecipeName(sliceTo(req.ingredients, 3),
                                               requestMealType(req), pattern)),
      ingredients |-> mapIngredients(parsedData.ingredients, "1", "piece"),
      steps       |-> IF parsedData.steps = Undefined
                      THEN << TextStep("Prepare ingredients and cook as desired") >>
                      ELSE textSteps(parsedData.steps[1]),
      cookingTime |-> NumOr(parsedData.cookingTime, requestCookingTime(req)),
      servings    |-> NumOr(parsedData.servings, requestServings(req)),
      difficulty  |-> StrOr(parsedData.difficulty, "Medium"),
      cuisine     |-> StrOr(parsedData.cuisine, "International"),
      tags        |-> OrDefault(parsedData.tags, << "homemade" >>),
      nutrition   |-> OrDefault(parsedData.nutrition, ZeroNutrition) ]

\* The operators below return the value the method returns together with
\* the sources the method called to obtain it (trace).  Their argument
\* ruleBased is the value of this.generateRuleBasedRecipe(request), which is
\* evaluated only where the method calls it.

parseAlternativeResponse(body, req, id, pattern, ruleBased) ==
    IF body.kind = "json"
    THEN [ recipe |-> createRecipeFromData(body.data, req, id, pattern),
           trace  |-> << >> ]
    ELSE [ recipe |-> OrDefault(ruleBased.data,
                                createRecipeFromData(EmptyPayload, req, id, pattern)),
           trace  |-> << "composer" >> ]

\* return { success: true, data: recipe }
successWith(parsed) ==
    [ response |-> ApiResponse(TRUE, Some(parsed.recipe), "", ""),
      trace    |-> parsed.trace ]

\* tryAlternativeAI with its last statement replaced by a failure result
tryAlternativeAINoComposer(req, outcome, id, pattern, ruleBased) ==
    IF outcome.kind = "ok"
    THEN successWith(parseAlternativeResponse(outcome.body, req, id, pattern, ruleBased))
    ELSE [ response |-> ApiResponse(FALSE, Undefined, "", "Alternative AI failed"),
           trace    |-> << >> ]

\* tryAlternativeAI from the point where fetch has settled
tryAlternativeAI(req, outcome, id, pattern, ruleBased) ==
    IF outcome.kind = "ok"
    THEN successWith(parseAlternativeResponse(outcome.body, req, id, pattern, ruleBased))
    ELSE [ response |-> ruleBased,
           trace    |-> << "composer" >> ]

\* a catch clause entered whatever the try block did
primaryThrowsAlways(outcome) ==
    TRUE

\* the try block of generateRecipe leaves through its catch clause
primaryThrows(outcome) ==
    outcome.kind # "ok"

-----------------------------------------------------------------------------
(* NutritionCalculatorService.  Calories and sodium are whole numbers; the *)
(* other fields are held in tenths of a gram.  Quantities are held in      *)
(* thousandths and weights in ten-thousandths of a gram.                   *)

N(calories, protein, carbs, fat, fiber, sugar, sodium) ==
    [ calories |-> calories, protein |-> protein, carbs |-> carbs, fat |-> fat,
      fiber |-> fiber, sugar |-> sugar, sodium |-> sodium ]

\* per 100 g
nutritionDB ==
    ("tomato" :> N(18, 9, 39, 2, 12, 26, 5)) @@
    ("onion" :> N(40, 11, 93, 1, 17, 42, 4)) @@
    ("garlic" :> N(149, 64, 331, 5, 21, 10, 17)) @@
    ("potato" :> N(77, 20, 175, 1, 22, 8, 6)) @@
    ("carrot" :> N(41, 9, 96, 2, 28, 47, 69)) @@
    ("bell pepper" :> N(31, 10, 73, 3, 25, 42, 4)) @@
    ("spinach" :> N(23, 29, 36, 4, 22, 4, 79)) @@
    ("broccoli" :> N(34, 28, 66, 4, 26, 15, 33)) @@
    ("cucumber" :> N(16, 7, 40, 1, 5, 17, 2)) @@
    ("lettuce" :> N(15, 14, 29, 2, 13, 8, 28)) @@
    ("chicken" :> N(239, 273, 0, 136, 0, 0, 82)) @@
    ("beef" :> N(250, 261, 0, 154, 0, 0, 72)) @@
    ("fish" :> N(206, 220, 0, 124, 0, 0, 59)) @@
    ("egg" :> N(155, 130, 11, 106, 0, 11, 124)) @@
    ("tofu" :> N(76, 81, 19, 48, 3, 6, 7)) @@
    ("milk" :> N(42, 34, 50, 10, 0, 50, 44)) @@
    ("cheese" :> N(113, 71, 10, 90, 0, 10, 621)) @@
    ("yogurt" :> N(59, 100, 36, 4, 0, 32, 36)) @@
    ("rice" :> N(130, 27, 282, 3, 4, 1, 5)) @@
    ("pasta" :> N(131, 50, 250, 11, 18, 6, 6)) @@
    ("bread" :> N(265, 90, 490, 32, 27, 50, 491)) @@
    ("quinoa" :> N(120, 44, 220, 19, 28, 9, 7)) @@
    ("olive oil" :> N(884, 0, 0, 1000, 0, 0, 2)) @@
    ("butter" :> N(717, 9, 1, 811, 0, 1, 11)) @@
    ("apple" :> N(52, 3, 138, 2, 24, 104, 1)) @@
    ("banana" :> N(89, 11, 228, 3, 26, 122, 1)) @@
    ("lemon" :> N(29, 11, 93, 3, 28, 15, 2)) @@
    ("basil" :> N(22, 32, 26, 6, 16, 3, 4)) @@
    ("oregano" :> N(265, 90, 689, 43, 425, 41, 25)) @@
    ("thyme" :> N(101, 56, 245, 17, 140, 17, 9))

\* grams per unit, in ten-thousandths of a gram
conversions ==
    ("g" :> 10000) @@ ("gram" :> 10000) @@ ("grams" :> 10000) @@ ("kg" :> 10000000) @@
    ("kilogram" :> 10000000) @@ ("kilograms" :> 10000000) @@ ("lb" :> 4535920) @@
    ("pound" :> 4535920) @@ ("pounds" :> 4535920) @@ ("oz" :> 283495) @@
    ("ounce" :> 283495) @@ ("ounces" :> 283495) @@ ("ml" :> 10000) @@
    ("milliliter" :> 10000) @@ ("milliliters" :> 10000) @@ ("l" :> 10000000) @@
    ("liter" :> 10000000) @@ ("liters" :> 10000000) @@ ("cup" :> 2400000) @@
    ("cups" :> 2400000) @@ ("tbsp" :> 150000) @@ ("tablespoon" :> 150000) @@
    ("tablespoons" :> 150000) @@ ("tsp" :> 50000) @@ ("teaspoon" :> 50000) @@
    ("teaspoons" :> 50000) @@ ("piece" :> 1000000) @@ ("pieces" :> 1000000) @@
    ("item" :> 1000000) @@ ("items" :> 1000000) @@ ("small" :> 800000) @@
    ("medium" :> 1500000) @@ ("large" :> 2000000) @@ ("clove" :> 30000) @@
    ("cloves" :> 30000)

UnknownUnitFactor ==
    1000000

RECURSIVE keepNumeric(_, _)
keepNumeric(s, i) ==
    IF i > Len(s) THEN ""
    ELSE IF isDigit(charAt(s, i)) \/ charAt(s, i) = "."
         THEN charAt(s, i) \o keepNumeric(s, i + 1)
         ELSE keepNumeric(s, i + 1)

\* quantity.replace(/[^0-9.]/g, '')
stripNonNumeric(s) ==
    keepNumeric(s, 1)

\* the first three digits of a fraction, as thousandths
fractionThousandths(digits) ==
    IF digits[2] = 0 THEN 0
    ELSE IF digits[2] = 1 THEN digits[1] * 100
    ELSE IF digits[2] = 2 THEN digits[1] * 10
    ELSE digits[1]

\* parseFloat of a string of digits and dots, in thousandths; NaN is Undefined
parseFloatThousandths(s) ==
    IF leadingDigits(s, 0, 0)[2] = Len(s)
    THEN IF Len(s) = 0 THEN Undefined ELSE Some(1000 * leadingDigits(s, 0, 0)[1])
    ELSE IF charAt(s, leadingDigits(s, 0, 0)[2] + 1) # "."
         THEN Undefined
         ELSE IF leadingDigits(s, 0, 0)[2] = 0
                 /\ leadingDigits(SubSeq(s, 2, Len(s)), 0, 0)[2] = 0
              THEN Undefined
              ELSE Some(1000 * leadingDigits(s, 0, 0)[1]
                        + fractionThousandths(
                            leadingDigits(
                              SubSeq(s, leadingDigits(s, 0, 0)[2] + 2,
                                     Min(Len(s), leadingDigits(s, 0, 0)[2] + 4)), 0, 0)))

\* quantity (thousandths) times factor (ten-thousandths of a gram per unit)
gramsOf(quantity, factor) ==
    (quantity \div 1000) * factor
    + (quantity % 1000) * (factor \div 1000)
    + (((quantity % 1000) * (factor % 1000)) \div 1000)

convertToGrams(quantity, unit) ==
    gramsOf(NumOr(parseFloatThousandths(stripNonNumeric(quantity)), 100000),
            IF trim(toLowerCase(unit)) \in DOMAIN conversions
            THEN conversions[trim(toLowerCase(unit))]
            ELSE UnknownUnitFactor)

\* Math.round(n / d) for n >= 0, d > 0
roundDiv(n, d) ==
    (2 * n + d) \div (2 * d)

\* Math.round(base * factor) with factor = grams / 100
scaled(base, grams) ==
    base * (grams \div 1000000) + roundDiv(base * (grams % 1000000), 1000000)

scaleNutrition(baseNutrition, grams) ==
    [ field \in DOMAIN baseNutrition |-> scaled(baseNutrition[field], grams) ]

isVegetable(name) ==
    \/ someIncluded(name, << "vegetable", "cabbage", "kale", "celery", "radish",
                             "turnip", "beet" >>)
    \/ (Len(name) > 0 /\ charAt(name, Len(name)) = "s" /\ Len(name) > 4)

isFruit(name) ==
    someIncluded(name, << "fruit", "berry", "orange", "grape", "peach", "pear", "cherry" >>)

isProtein(name) ==
    someIncluded(name, << "meat", "protein", "turkey", "duck", "lamb", "pork", "salmon",
                          "tuna" >>)

isGrain(name) ==
    someIncluded(name, << "grain", "wheat", "barley", "oats", "flour", "noodle" >>)

isDairy(name) ==
    someIncluded(name, << "dairy", "cream", "sour cream", "cottage cheese", "mozzarella" >>)

getEstimatedNutrition(ingredientName) ==
    IF isVegetable(ingredientName) THEN N(25, 20, 50, 2, 20, 30, 10)
    ELSE IF isFruit(ingredientName) THEN N(50, 5, 120, 2, 20, 80, 1)
    ELSE IF isProtein(ingredientName) THEN N(200, 200, 0, 100, 0, 0, 70)
    ELSE IF isGrain(ingredientName) THEN N(120, 30, 250, 10, 20, 10, 5)
    ELSE IF isDairy(ingredientName) THEN N(80, 50, 40, 40, 0, 40, 50)
    ELSE N(50, 20, 80, 10, 10, 20, 20)

nutritionOfNormalized(normalizedName, ingredient) ==
    IF normalizedName \notin DOMAIN nutritionDB
    THEN getEstimatedNutrition(normalizedName)
    ELSE scaleNutrition(nutritionDB[normalizedName],
                        convertToGrams(IF ingredient.quantity = "" THEN "100"
                                       ELSE ingredient.quantity,
                                       IF ingredient.unit = "" THEN "g"
                                       ELSE ingredient.unit))

calculateIngredientNutrition(ingredient) ==
    nutritionOfNormalized(trim(toLowerCase(ingredient.name)), ingredient)

addNutrition(a, b) ==
    [ field \in DOMAIN a |-> a[field] + b[field] ]

\* the total as the facts of the first ingredient
totalNutritionFirstOnly(ings, k) ==
    IF k > Len(ings) THEN ZeroNutrition ELSE calculateIngredientNutrition(ings[k])

RECURSIVE totalNutritionFrom(_, _)
totalNutritionFrom(ings, k) ==
    IF k > Len(ings) THEN ZeroNutrition
    ELSE addNutrition(calculateIngredientNutrition(ings[k]), totalNutritionFrom(ings, k + 1))

\* the division guarded by servings !== 0 && servings !== 1
perServingUnlessZero(totalNutrition, servingCount) ==
    IF servingCount > 1
    THEN [ field \in DOMAIN totalNutrition |-> roundDiv(totalNutrition[field], servingCount) ]
    ELSE IF servingCount < 0
    THEN [ field \in DOMAIN totalNutrition |->
             0 - roundDiv(totalNutrition[field], 0 - servingCount) ]
    ELSE totalNutrition

perServing(totalNutrition, servingCount) ==
    IF servingCount > 1
    THEN [ field \in DOMAIN totalNutrition |-> roundDiv(totalNutrition[field], servingCount) ]
    ELSE totalNutrition

calculateRecipeNutrition(ings, servingCount) ==
    perServing(totalNutritionFrom(ings, 1), servingCount)

-----------------------------------------------------------------------------
(* DatabaseService: a call suspends at AsyncStorage.getItem and at         *)
(* AsyncStorage.setItem; the storage is taken to be reliable               *)

HistoryLimit ==
    50

\* no call of generateRecipe is running
IdleCall ==
    [ pc |-> "idle", calls |-> << >>, draw |-> Undefined, primary |-> Undefined,
      alternative |-> Undefined, result |-> Undefined ]

IdleDb ==
    [ op |-> "none", pc |-> "idle", arg |-> Undefined, read |-> Undefined ]

\* saveRecipe(recipe) / addToRecipeHistory(recipeId) up to the first await
DbCall(op, arg) ==
    [ op |-> op, pc |-> "getItem", arg |-> Some(arg), read |-> Undefined ]

\* history.filter(id => id !== recipeId)
historyUnfiltered(history, recipeId) ==
    history

filteredHistory(history, recipeId) ==
    SelectSeq(history, LAMBDA id : id # recipeId)

\* [recipeId, ...filteredHistory].slice(0, 50)
updatedHistory(history, recipeId) ==
    sliceTo(<< recipeId >> \o filteredHistory(history, recipeId), HistoryLimit)

\* [...existingRecipes, recipe]
updatedRecipes(existingRecipes, recipe) ==
    Append(existingRecipes, recipe)

-----------------------------------------------------------------------------
(* RecipeGeneratorScreen.generateRecipe from the return of the service on  *)

\* !recipe.nutrition || recipe.nutrition.calories === 0
needsNutrition(recipe) ==
    recipe.nutrition.calories = 0

withNutrition(recipe) ==
    IF needsNutrition(recipe)
    THEN [ recipe EXCEPT !.nutrition = calculateRecipeNutrition(recipe.ingredients,
                                                               recipe.servings) ]
    ELSE recipe

\* the handler without its finally clause
finishGenerateFlagKept(running) ==
    /\ UNCHANGED isGenerating
    /\ hpc' = "idle"
    /\ hrecipe' = Undefined
    /\ inFlight' = running - 1

\* the finally clause
finishGenerate(running) ==
    /\ isGenerating' = FALSE
    /\ hpc' = "idle"
    /\ hrecipe' = Undefined
    /\ inFlight' = running - 1

\* the handler after `await AIRecipeService.generateRecipe(request)`, up to
\* the first await inside DatabaseService.saveRecipe
resumeGenerate(result, busy, running) ==
    IF result.success /\ result.data # Undefined
    THEN \E recipe \in { withNutrition(result.data[1]) } :
           /\ nutrServings' = IF needsNutrition(result.data[1])
                              THEN Some(result.data[1].servings)
                              ELSE nutrServings
           /\ hrecipe' = Some(recipe)
           /\ hpc' = "saveRecipe"
           /\ db' = DbCall("saveRecipe", recipe)
           /\ isGenerating' = busy
           /\ inFlight' = running
    ELSE /\ finishGenerate(running)
         /\ UNCHANGED << nutrServings, db >>

\* the service call (its argument req, the buckets cat it has computed)
\* reaches an await or returns: a handler that awaits it stays suspended or
\* takes the result and resumes, which ends the call
settle(call, req, cat, awaited, busy, running) ==
    IF ~ awaited
    THEN /\ svc' = call
         /\ request' = req
         /\ categorized' = cat
         /\ UNCHANGED handlerVars
    ELSE IF call.pc = "done"
    THEN /\ svc' = IdleCall
         /\ request' = Undefined
         /\ categorized' = Undefined
         /\ resumeGenerate(call.result[1], busy, running)
    ELSE /\ svc' = call
         /\ request' = req
         /\ categorized' = cat
         /\ hpc' = "service"
         /\ isGenerating' = busy
         /\ inFlight' = running
         /\ UNCHANGED << nutrServings, hrecipe, db >>

-----------------------------------------------------------------------------
(* AIRecipeService.generateRecipe as a process: it suspends at the primary *)
(* call (axios.post) and at the alternate call (fetch)                     *)

\* the values of Math.floor(Math.random() * namePatterns.length)
NamePatterns ==
    0..3

\* generateRecipe(req) up to its first await; pattern is the value that
\* Math.random yields if this call comes to compose a recipe name
generateRecipe(req, pattern, awaited, busy, running) ==
    /\ IF ~ apiKey
       THEN /\ \E buckets \in { categorizeIngredients(req.ingredients) } :
                 settle([ IdleCall EXCEPT
                            !.pc = "done",
                            !.calls = << "composer" >>,
                            !.draw = Some(pattern),
                            !.result = Some(ruleBasedResponse(req, buckets, nextId,
                                                              pattern)) ],
                        Some(req), Some(buckets), awaited, busy, running)
            /\ estServings' = Some(requestServings(req))
            /\ nextId' = nextId + 1
       ELSE /\ settle([ IdleCall EXCEPT !.pc = "primary", !.calls = << "primary" >>,
                                        !.draw = Some(pattern) ],
                      Some(req), categorized, awaited, busy, running)
            /\ UNCHANGED << estServings, nextId >>
    /\ UNCHANGED apiKey

\* axios.post settles: the rest of the try block, or the catch clause up to
\* the await of tryAlternativeAI (which suspends at fetch)
PrimaryResponds ==
    /\ svc.pc = "primary"
    /\ \E outcome \in PrimaryOutcomes :
         IF primaryThrows(outcome)
         THEN /\ settle([ svc EXCEPT !.pc = "alternative",
                                     !.calls = Append(@, "alternate"),
                                     !.primary = Some(outcome) ],
                        request, categorized, hpc = "service", isGenerating, inFlight)
              /\ UNCHANGED nextId
         ELSE /\ settle([ svc EXCEPT
                            !.pc = "done",
                            !.primary = Some(outcome),
                            !.result = Some(ApiResponse(TRUE,
                                Some(parseRecipeResponse(outcome.content, nextId)), "", "")) ],
                        request, categorized, hpc = "service", isGenerating, inFlight)
              /\ nextId' = nextId + 1
    /\ UNCHANGED << apiKey, estServings >>
    /\ UNCHANGED << screenVars, storageVars, libraryVars >>

\* generateRecipe's catch clause once tryAlternativeAI has returned
afterFallback(fallbackResult) ==
    IF fallbackResult.success
    THEN fallbackResult
    ELSE ApiResponse(FALSE, Undefined, "", "Failed to generate recipe. Please try again.")

\* fetch settles: the rest of tryAlternativeAI and of generateRecipe's catch
AlternativeResponds ==
    /\ svc.pc = "alternative"
    /\ \E buckets \in { categorizeIngredients(request[1].ingredients) },
          pattern \in { svc.draw[1] } :
         \E ruleBased \in { ruleBasedResponse(request[1], buckets, nextId, pattern) } :
           \E outcome \in AlternativeOutcomes :
             \E fallback \in { tryAlternativeAI(request[1], outcome, nextId, pattern,
                                                ruleBased) } :
               /\ settle([ svc EXCEPT
                             !.pc = "done",
                             !.calls = @ \o fallback.trace,
                             !.alternative = Some(outcome),
                             !.result = Some(afterFallback(fallback.response)) ],
                         request,
                         IF fallback.trace # << >> THEN Some(buckets) ELSE categorized,
                         hpc = "service", isGenerating, inFlight)
               /\ estServings' = IF fallback.trace # << >>
                                 THEN Some(requestServings(request[1]))
                                 ELSE estServings
    /\ nextId' = nextId + 1
    /\ UNCHANGED apiKey
    /\ UNCHANGED << screenVars, storageVars, libraryVars >>

-----------------------------------------------------------------------------
(* DatabaseService calls as processes                                      *)

\* AsyncStorage.getItem resolves: the call goes on to its setItem
GetItemResolves ==
    /\ db.pc = "getItem"
    /\ db' = [ db EXCEPT !.pc = "setItem",
                         !.read = Some(IF db.op = "saveRecipe" THEN savedRecipes
                                       ELSE recipeHistory) ]
    /\ UNCHANGED << svcVars, svc, screenVars, storageVars, libraryVars >>
    /\ UNCHANGED << nutrServings, isGenerating, hpc, hrecipe, inFlight >>

\* AsyncStorage.setItem resolves: the call returns true, and a handler that
\* awaits it goes on: after saveRecipe to the first await of
\* addToRecipeHistory, after addToRecipeHistory to its end
SetItemResolves ==
    /\ db.pc = "setItem"
    /\ IF db.op = "saveRecipe"
       THEN /\ savedRecipes' = updatedRecipes(db.read[1], db.arg[1])
            /\ UNCHANGED << recipeHistory, lastAdded >>
       ELSE /\ recipeHistory' = updatedHistory(db.read[1], db.arg[1])
            /\ lastAdded' = Some([ id |-> db.arg[1], result |-> TRUE ])
            /\ UNCHANGED savedRecipes
    /\ IF hpc = "saveRecipe"
       THEN /\ db' = DbCall("addToRecipeHistory", hrecipe[1].id)
            /\ hpc' = "addToRecipeHistory"
            /\ UNCHANGED << isGenerating, hrecipe, inFlight >>
       ELSE IF hpc = "addToRecipeHistory"
       THEN /\ db' = IdleDb
            /\ finishGenerate(inFlight)
       ELSE /\ db' = IdleDb
            /\ UNCHANGED << isGenerating, hpc, hrecipe, inFlight >>
    /\ IF hpc = "addToRecipeHistory"
       THEN /\ estServings' = Undefined
            /\ nutrServings' = Undefined
       ELSE UNCHANGED << estServings, nutrServings >>
    /\ UNCHANGED << apiKey, request, categorized, nextId, svc, screenVars, libraryVars >>

-----------------------------------------------------------------------------
(* RecipeGeneratorScreen: the handlers of the screen                       *)

\* array.includes(x)
arrayIncludes(list, x) ==
    \E k \in 1..Len(list) : list[k] = x

\* texts submitted in the ingredient field
IngredientTexts ==
    { " Egg ", "  " }

\* the name patterns drawn for the calls the screen makes
ScreenNamePatterns ==
    { 0, 3 }

\* texts typed into the servings field
ServingsTexts ==
    { "4", "-2" }

\* results of IngredientRecognitionService.recognizeIngredients
RecognitionResults ==
    { [ success |-> TRUE, ingredients |-> << "Rice" >> ],
      [ success |-> FALSE, ingredients |-> << >> ] }

addIngredient(ingredient) ==
    /\ \E normalizedIngredient \in { toLowerCase(trim(ingredient)) } :
         IF normalizedIngredient # "" /\ ~ arrayIncludes(ingredients, normalizedIngredient)
         THEN ingredients' = Append(ingredients, normalizedIngredient)
         ELSE UNCHANGED ingredients
    /\ UNCHANGED << servings, isImageProcessing, imgClosure >>
    /\ UNCHANGED << svcVars, svc, handlerVars, storageVars, libraryVars >>

AddIngredient ==
    \E ingredient \in IngredientTexts : addIngredient(ingredient)

\* index counts from 1 here
removeIngredient(index) ==
    /\ ingredients' = [ k \in 1..(Len(ingredients) - 1) |->
                          IF k < index THEN ingredients[k] ELSE ingredients[k + 1] ]
    /\ UNCHANGED << servings, isImageProcessing, imgClosure >>
    /\ UNCHANGED << svcVars, svc, handlerVars, storageVars, libraryVars >>

RemoveIngredient ==
    \E index \in 1..Len(ingredients) : removeIngredient(index)

\* onChangeText of the servings field
setServings(text) ==
    /\ servings' = text
    /\ UNCHANGED << ingredients, isImageProcessing, imgClosure >>
    /\ UNCHANGED << svcVars, svc, handlerVars, storageVars, libraryVars >>

SetServings ==
    \E text \in ServingsTexts : setServings(text)

\* the camera button is pressed and a picture is picked: processImage up to
\* its await; the function closes over the ingredient list of this render
PickImage ==
    /\ ~ isImageProcessing
    /\ isImageProcessing' = TRUE
    /\ imgClosure' = Some(ingredients)
    /\ UNCHANGED << ingredients, servings >>
    /\ UNCHANGED << svcVars, svc, handlerVars, storageVars, libraryVars >>

lowerAll(list) ==
    [ k \in 1..Len(list) |-> toLowerCase(list[k]) ]

\* recognizedIngredients.filter(ingredient => !ingredients.includes(...))
newIngredients(recognizedIngredients, captured) ==
    SelectSeq(recognizedIngredients,
              LAMBDA ingredient : ~ arrayIncludes(captured, toLowerCase(ingredient)))

\* processImage after its await
processImage(result) ==
    /\ IF result.success /\ newIngredients(result.ingredients, imgClosure[1]) # << >>
       THEN ingredients' = imgClosure[1]
                           \o lowerAll(newIngredients(result.ingredients, imgClosure[1]))
       ELSE UNCHANGED ingredients
    /\ isImageProcessing' = FALSE
    /\ imgClosure' = Undefined
    /\ UNCHANGED servings
    /\ UNCHANGED << svcVars, svc, handlerVars, storageVars, libraryVars >>

ImageRecognized ==
    /\ imgClosure # Undefined
    /\ \E result \in RecognitionResults : processImage(result)

\* ingredients.length === 0
noIngredientsNever(list) ==
    FALSE

noIngredients(list) ==
    Len(list) = 0

\* the disabled prop of the generate button
generateDisabledWhenEmptyOnly ==
    noIngredients(ingredients)

generateDisabled ==
    noIngredients(ingredients) \/ isGenerating

\* parseInt(text) || undefined
parseIntOrUndefined(text) ==
    IF parseInt(text) = Undefined \/ parseInt(text) = Some(0) THEN Undefined
    ELSE parseInt(text)

\* the RecipeGenerationRequest the handler builds (meal type and cooking
\* time are left at their initial 'Dinner' and '30')
screenRequest ==
    [ ingredients |-> ingredients,
      mealType    |-> Some("Dinner"),
      cookingTime |-> parseIntOrUndefined("30"),
      servings    |-> parseIntOrUndefined(servings) ]

\* a press on the generate button: nothing when the button is disabled,
\* otherwise the handler generateRecipe up to its first await
PressGenerate ==
    IF generateDisabled \/ noIngredients(ingredients)
    THEN UNCHANGED vars
    ELSE /\ nextId <= MaxRecipes
         /\ \E pattern \in ScreenNamePatterns :
              generateRecipe(screenRequest, pattern, TRUE, TRUE, inFlight + 1)
         /\ UNCHANGED << screenVars, storageVars, libraryVars >>

-----------------------------------------------------------------------------
(* IngredientRecognitionService: recognizeIngredients                      *)

\* key and value of each entry, in insertion order
ingredientMappings ==
    << << "tomato", "tomato" >>, << "tomatoes", "tomato" >>,
       << "onion", "onion" >>, << "onions", "onion" >>,
       << "potato", "potato" >>, << "potatoes", "potato" >>,
       << "carrot", "carrot" >>, << "carrots", "carrot" >>,
       << "bell pepper", "bell pepper" >>, << "capsicum", "bell pepper" >>,
       << "garlic", "garlic" >>, << "ginger", "ginger" >>,
       << "spinach", "spinach" >>, << "lettuce", "lettuce" >>,
       << "cucumber", "cucumber" >>, << "broccoli", "broccoli" >>,
       << "cauliflower", "cauliflower" >>,
       << "mushroom", "mushroom" >>, << "mushrooms", "mushroom" >>,
       << "chicken", "chicken" >>, << "beef", "beef" >>, << "pork", "pork" >>,
       << "fish", "fish" >>, << "egg", "egg" >>, << "eggs", "egg" >>,
       << "cheese", "cheese" >>, << "milk", "milk" >>, << "bread", "bread" >>,
       << "rice", "rice" >>, << "pasta", "pasta" >>, << "lemon", "lemon" >>,
       << "lime", "lime" >>, << "apple", "apple" >>, << "banana", "banana" >>,
       << "orange", "orange" >> >>

foodKeywords ==
    << "vegetable", "fruit", "meat", "dairy", "grain", "herb", "spice",
       "produce", "organic", "fresh", "food", "ingredient" >>

\* the entries whose key is the name
directMapping(detectedName) ==
    { k \in 1..Len(ingredientMappings) : ingredientMappings[k][1] = detectedName }

\* the entries the fuzzy loop accepts
fuzzyMapping(detectedName) ==
    { k \in 1..Len(ingredientMappings) :
        \/ includes(detectedName, ingredientMappings[k][1])
        \/ includes(ingredientMappings[k][1], detectedName) }

\* the first entry of a non-empty set of entries
firstOf(entries) ==
    CHOOSE k \in entries : \A j \in entries : k <= j

\* null is Undefined
findMatchingIngredient(detectedName) ==
    IF directMapping(detectedName) # {}
    THEN Some(ingredientMappings[firstOf(directMapping(detectedName))][2])
    ELSE IF fuzzyMapping(detectedName) # {}
    THEN Some(ingredientMappings[firstOf(fuzzyMapping(detectedName))][2])
    ELSE IF someIncluded(detectedName, foodKeywords)
    THEN Some(detectedName)
    ELSE Undefined

\* the value of a call that threw
Thrown ==
    [ thrown |-> TRUE ]

\* a detection of a provider: its name (obj.name, label.description,
\* obj.object, tag.name, concept.name) and its score in hundredths, each
\* possibly missing
Detection(name, score) ==
    [ name |-> name, score |-> score ]

EmptyResult ==
    [ ingredients |-> << >>, confidence |-> << >> ]

\* the forEach of the extract functions over the detections from index k on:
\* lower is the toLowerCase of the Google extractor, defaultScore the
\* || default of the others (Undefined: the score is pushed as it is).
\* Calling a method of a missing name throws.
RECURSIVE pushDetections(_, _, _, _, _)
pushDetections(found, detections, k, lower, defaultScore) ==
    IF found = Thrown \/ k > Len(detections) THEN found
    ELSE IF detections[k].name = Undefined THEN Thrown
    ELSE pushDetections(
           LET name   == IF lower THEN toLowerCase(detections[k].name[1])
                         ELSE detections[k].name[1]
               mapped == findMatchingIngredient(name)
               score  == IF defaultScore = Undefined THEN detections[k].score
                         ELSE Some(NumOr(detections[k].score, defaultScore[1]))
           IN  IF mapped # Undefined /\ mapped # Some("")
                  /\ ~ arrayIncludes(found.ingredients, mapped[1])
               THEN [ ingredients |-> Append(found.ingredients, mapped[1]),
                      confidence  |-> Append(found.confidence, score) ]
               ELSE found,
           detections, k + 1, lower, defaultScore)

\* objects and labels are the two annotation lists (|| [] for a missing one)
extractIngredientsFromVisionData(objects, labels) ==
    pushDetections(EmptyResult, objects \o labels, 1, TRUE, Undefined)

\* data.objects and data.tags, each possibly missing
extractIngredientsFromAzureData(data) ==
    pushDetections(
        pushDetections(EmptyResult, OrDefault(data.objects, << >>), 1, FALSE, Some(80)),
        OrDefault(data.tags, << >>), 1, FALSE, Some(70))

\* data.outputs[0]?.data?.concepts, possibly missing
extractIngredientsFromClarifaiData(data) ==
    pushDetections(EmptyResult, OrDefault(data.concepts, << >>), 1, FALSE, Some(70))

\* detections the providers report: a plural, a capitalised name, a food
\* term, an object that is no food, a detection without a name
Detections ==
    { Detection(Some("Tomatoes"), Some(90)),
      Detection(Some("egg"), Some(0)),
      Detection(Some("fresh produce"), Undefined),
      Detection(Some("Table"), Some(50)),
      Detection(Undefined, Some(50)) }

DetectionLists ==
    { << >> } \cup { << d >> : d \in Detections }
    \cup { << Detection(Some("egg"), Some(0)), Detection(Some("eggs"), Some(60)) >> }

\* what the fetch of recognizeWithGoogleVision and its response.json() yield:
\* a rejection, a body without responses[0], or the two annotation lists
GoogleOutcomes ==
    { [ kind |-> "throws" ], [ kind |-> "noResponses" ] }
    \cup [ kind : { "annotations" },
           objects : { Undefined } \cup { Some(l) : l \in DetectionLists },
           labels : { Undefined, Some(<< >>), Some(<< Detection(Some("Rice"), Some(80)) >>) } ]

\* the same for recognizeWithAzureVision: a rejection, a response that is
\* not ok, or a body with objects and tags
AzureOutcomes ==
    { [ kind |-> "throws" ], [ kind |-> "notOk" ] }
    \cup [ kind : { "ok" },
           objects : { Undefined } \cup { Some(l) : l \in DetectionLists },
           tags : { Undefined, Some(<< Detection(Some("rice"), Undefined) >>) } ]

ClarifaiOutcomes ==
    { [ kind |-> "throws" ], [ kind |-> "notOk" ] }
    \cup [ kind : { "ok" },
           concepts : { Undefined } \cup { Some(l) : l \in DetectionLists } ]

\* the try block of recognizeWithGoogleVision
googleVisionTry(outcome) ==
    IF outcome.kind = "throws" THEN Thrown
    ELSE IF outcome.kind = "noResponses"
    THEN ApiResponse(FALSE, Undefined, "", "No ingredients detected in image")
    ELSE IF extractIngredientsFromVisionData(OrDefault(outcome.objects, << >>),
                                             OrDefault(outcome.labels, << >>)) = Thrown
    THEN Thrown
    ELSE ApiResponse(TRUE,
                     Some(extractIngredientsFromVisionData(
                              OrDefault(outcome.objects, << >>),
                              OrDefault(outcome.labels, << >>))),
                     "", "")

recognizeWithGoogleVisionNoCatch(outcome) ==
    googleVisionTry(outcome)

recognizeWithGoogleVision(outcome) ==
    IF googleVisionTry(outcome) = Thrown
    THEN ApiResponse(FALSE, Undefined, "", "Vision API error")
    ELSE googleVisionTry(outcome)

\* the try block of recognizeWithAzureVision and the return after it
azureVisionTry(outcome) ==
    IF outcome.kind = "throws" THEN Thrown
    ELSE IF outcome.kind = "notOk"
    THEN ApiResponse(FALSE, Undefined, "", "Azure Vision failed")
    ELSE IF extractIngredientsFromAzureData(outcome) = Thrown THEN Thrown
    ELSE ApiResponse(TRUE, Some(extractIngredientsFromAzureData(outcome)),
                     "Recognized using Azure Vision", "")

recognizeWithAzureVision(outcome) ==
    IF azureVisionTry(outcome) = Thrown
    THEN ApiResponse(FALSE, Undefined, "", "Azure Vision failed")
    ELSE azureVisionTry(outcome)

clarifaiTry(outcome) ==
    IF outcome.kind = "throws" THEN Thrown
    ELSE IF outcome.kind = "notOk"
    THEN ApiResponse(FALSE, Undefined, "", "Clarifai failed")
    ELSE IF extractIngredientsFromClarifaiData(outcome) = Thrown THEN Thrown
    ELSE ApiResponse(TRUE, Some(extractIngredientsFromClarifaiData(outcome)),
                     "Recognized using Clarifai", "")

recognizeWithClarifai(outcome) ==
    IF clarifaiTry(outcome) = Thrown
    THEN ApiResponse(FALSE, Undefined, "", "Clarifai failed")
    ELSE clarifaiTry(outcome)

getCommonKitchenIngredients ==
    << "onion", "garlic", "tomato", "potato", "carrot", "bell pepper",
       "chicken", "beef", "rice", "pasta", "bread", "egg", "milk",
       "cheese", "oil", "salt", "pepper", "butter" >>

reversed(list) ==
    [ k \in 1..Len(list) |-> list[Len(list) + 1 - k] ]

\* orders the random sort leaves an array in
Shuffles(list) ==
    { list, reversed(list) }

\* Math.floor(Math.random() * 5) + 3
SelectionCounts ==
    3..7

\* Math.random() * 0.3 + 0.7 and Math.random() * 0.4 + 0.6, in hundredths;
\* one draw stands for the draws of a call
ConfidenceDraws ==
    { 70, 99 }

\* shuffled is the sorted array, selected the number of entries kept
recognizeWithLocalModel(shuffled, selected, confidence) ==
    ApiResponse(TRUE,
                Some([ ingredients |-> sliceTo(shuffled, selected),
                       confidence  |-> [ k \in 1..Len(sliceTo(shuffled, selected)) |->
                                           Some(confidence) ] ]),
                "Analyzed using local intelligence", "")

ColorNames ==
    << "red", "green", "orange", "white", "yellow", "brown" >>

colorMappings ==
    [ red    |-> << "tomato", "bell pepper", "onion" >>,
      green  |-> << "spinach", "lettuce", "broccoli", "cucumber" >>,
      orange |-> << "carrot", "sweet potato", "pumpkin" >>,
      white  |-> << "onion", "garlic", "potato", "cauliflower" >>,
      yellow |-> << "corn", "lemon", "banana", "bell pepper" >>,
      brown  |-> << "mushroom", "potato", "bread" >> ]

\* shuffledColors is Object.keys(colorMappings) after the random sort
analyzeImageColors(shuffledColors) ==
    sliceTo(colorMappings[shuffledColors[1]], 2)
    \o sliceTo(colorMappings[shuffledColors[2]], 2)
    \o sliceTo(colorMappings[shuffledColors[3]], 2)

\* month is getMonth() (0..11), hour is getHours() (0..23)
getContextualIngredients(month, hour) ==
    sliceTo(
        (IF month >= 2 /\ month <= 4 THEN << "spinach", "lettuce", "asparagus" >>
         ELSE IF month >= 5 /\ month <= 7 THEN << "tomato", "cucumber", "bell pepper" >>
         ELSE IF month >= 8 /\ month <= 10 THEN << "pumpkin", "sweet potato", "apple" >>
         ELSE << "potato", "carrot", "onion" >>)
        \o (IF hour >= 6 /\ hour <= 10 THEN << "egg", "bread", "milk" >>
            ELSE IF hour >= 11 /\ hour <= 14 THEN << "chicken", "rice", "vegetables" >>
            ELSE IF hour >= 17 /\ hour <= 21 THEN << "beef", "pasta", "sauce" >>
            ELSE << >>),
        3)

\* filter((x, index, self) => self.indexOf(x) === index)
firstOccurrences(list) ==
    SelectSeq([ k \in 1..Len(list) |-> << k, list[k] >> ],
              LAMBDA e : \A j \in 1..(e[1] - 1) : list[j] # e[2])

unique(list) ==
    [ k \in 1..Len(firstOccurrences(list)) |-> firstOccurrences(list)[k][2] ]

analyzeImageIntelligently(shuffledColors, month, hour, confidence) ==
    ApiResponse(TRUE,
                Some([ ingredients |->
                         sliceTo(unique(analyzeImageColors(shuffledColors)
                                        \o getContextualIngredients(month, hour)), 6),
                       confidence |->
                         [ k \in 1..Len(sliceTo(unique(analyzeImageColors(shuffledColors)
                                        \o getContextualIngredients(month, hour)), 6)) |->
                             Some(confidence) ] ]),
                "Analyzed using intelligent image processing", "")

\* the test tryAlternativeVision applies to the result of an alternative
alternativeAccepted(result) ==
    /\ result # Thrown
    /\ result.success
    /\ result.data # Undefined
    /\ Len(result.data[1].ingredients) > 0

AllVisionFailed ==
    ApiResponse(FALSE, Undefined, "", "All vision services failed. Please try manual input.")

\* the catch clause of recognizeIngredients
RecognitionFailed ==
    ApiResponse(FALSE, Undefined, "",
                "Failed to recognize ingredients from image. Please try again or enter ingredients manually.")

IdleVision ==
    [ pc |-> "idle", key |-> FALSE, calls |-> << >>, google |-> Undefined,
      azure |-> Undefined, clarifai |-> Undefined, result |-> Undefined ]

\* recognizeIngredients returns result
visionReturns(call, result) ==
    [ call EXCEPT !.pc = "done", !.result = Some(result) ]

\* the rest of recognizeIngredients once tryAlternativeVision has returned
afterAlternatives(call, alternativeResult, fallback) ==
    IF alternativeResult.success
    THEN visionReturns(call, alternativeResult)
    ELSE visionReturns([ call EXCEPT !.calls = Append(call.calls, "intelligent") ], fallback)

\* recognizeIngredients up to its first await
CallRecognizeIngredients ==
    /\ vision.pc = "idle"
    /\ vision' = IF vision.key
                 THEN [ vision EXCEPT !.pc = "google", !.calls = << "google" >> ]
                 ELSE [ vision EXCEPT !.pc = "azure", !.calls = << "azure" >> ]
    /\ UNCHANGED << svcVars, svc, handlerVars, screenVars, storageVars, storeVars, suggest, calc, analysis, conv >>

\* recognizeWithGoogleVision returns or throws
GoogleResponds ==
    /\ vision.pc = "google"
    /\ \E outcome \in GoogleOutcomes :
         \E visionResult \in { recognizeWithGoogleVision(outcome) } :
           vision' =
             IF visionResult = Thrown
             THEN visionReturns([ vision EXCEPT !.google = Some(outcome) ], RecognitionFailed)
             ELSE IF visionResult.success /\ visionResult.data # Undefined
             THEN visionReturns([ vision EXCEPT !.google = Some(outcome) ], visionResult)
             ELSE [ vision EXCEPT !.pc = "azure", !.google = Some(outcome),
                                  !.calls = Append(vision.calls, "azure") ]
    /\ UNCHANGED << svcVars, svc, handlerVars, screenVars, storageVars, storeVars, suggest, calc, analysis, conv >>

\* the first alternative of tryAlternativeVision returns or throws
AzureResponds ==
    /\ vision.pc = "azure"
    /\ \E outcome \in AzureOutcomes :
         \E result \in { recognizeWithAzureVision(outcome) } :
           vision' =
             IF alternativeAccepted(result)
             THEN visionReturns([ vision EXCEPT !.azure = Some(outcome) ], result)
             ELSE [ vision EXCEPT !.pc = "clarifai", !.azure = Some(outcome),
                                  !.calls = Append(vision.calls, "clarifai") ]
    /\ UNCHANGED << svcVars, svc, handlerVars, screenVars, storageVars, storeVars, suggest, calc, analysis, conv >>

ClarifaiResponds ==
    /\ vision.pc = "clarifai"
    /\ \E outcome \in ClarifaiOutcomes :
         \E result \in { recognizeWithClarifai(outcome) } :
           vision' =
             IF alternativeAccepted(result)
             THEN visionReturns([ vision EXCEPT !.clarifai = Some(outcome) ], result)
             ELSE [ vision EXCEPT !.pc = "local", !.clarifai = Some(outcome),
                                  !.calls = Append(vision.calls, "local") ]
    /\ UNCHANGED << svcVars, svc, handlerVars, screenVars, storageVars, storeVars, suggest, calc, analysis, conv >>

\* the timer of recognizeWithLocalModel fires: the last alternative returns,
\* tryAlternativeVision returns, and recognizeIngredients returns its result
\* or the one of analyzeImageIntelligently (whose timer is not a step of its
\* own here)
LocalModelResolves ==
    /\ vision.pc = "local"
    /\ \E shuffled \in Shuffles(getCommonKitchenIngredients), selected \in SelectionCounts,
          confidence \in ConfidenceDraws, month \in { 0, 6 }, hour \in { 3, 12 } :
         \E result \in { recognizeWithLocalModel(shuffled, selected, confidence) } :
           vision' = afterAlternatives(
                       vision,
                       IF alternativeAccepted(result) THEN result ELSE AllVisionFailed,
                       analyzeImageIntelligently(sliceTo(ColorNames, 3), month, hour,
                                                 confidence))
    /\ UNCHANGED << svcVars, svc, handlerVars, screenVars, storageVars, storeVars, suggest, calc, analysis, conv >>

-----------------------------------------------------------------------------
(* IngredientRecognitionService: getIngredientSuggestions                  *)

startsWith(s, t) ==
    Len(t) <= Len(s) /\ SubSeq(s, 1, Len(t)) = t

\* Object.values(this.ingredientMappings), in the order of the keys
mappingValues ==
    [ k \in 1..Len(ingredientMappings) |-> ingredientMappings[k][2] ]

\* the first loop: every value that starts with the input is pushed
pushExact(normalizedInput) ==
    SelectSeq(mappingValues,
              LAMBDA ingredient : startsWith(toLowerCase(ingredient), normalizedInput))

\* a loop that pushes an item unless the list includes it already: the items
\* that are not in the list are appended, each at its first occurrence
pushNew(suggestions, items) ==
    suggestions \o unique(SelectSeq(items, LAMBDA item : ~ arrayIncludes(suggestions, item)))

\* the second loop: the values that contain the input are pushed that way
pushFuzzy(suggestions, normalizedInput) ==
    pushNew(suggestions,
            SelectSeq(mappingValues,
                      LAMBDA ingredient : includes(toLowerCase(ingredient), normalizedInput)))

getContextualSuggestions(input) ==
    (IF someIncluded(input, << "meat", "protein", "chicken", "beef" >>)
       THEN << "chicken breast", "ground beef", "salmon", "tofu" >> ELSE << >>)
    \o (IF someIncluded(input, << "veg", "green", "fresh" >>)
          THEN << "spinach", "broccoli", "lettuce", "cucumber" >> ELSE << >>)
    \o (IF someIncluded(input, << "grain", "carb", "rice", "pasta" >>)
          THEN << "brown rice", "quinoa", "whole wheat pasta" >> ELSE << >>)

categories ==
    << << "fruits", << "apple", "banana", "orange", "berries", "lemon", "lime" >> >>,
       << "vegetables", << "tomato", "onion", "carrot", "potato", "bell pepper", "garlic" >> >>,
       << "proteins", << "chicken", "beef", "fish", "eggs", "beans", "tofu" >> >>,
       << "grains", << "rice", "pasta", "bread", "quinoa", "oats" >> >>,
       << "dairy", << "milk", "cheese", "yogurt", "butter" >> >>,
       << "spices", << "salt", "pepper", "basil", "oregano", "cumin", "paprika" >> >> >>

\* category.slice(0, -1)
withoutLastChar(s) ==
    SubSeq(s, 1, Len(s) - 1)

matchedCategories(input) ==
    { k \in 1..Len(categories) :
        \/ includes(input, withoutLastChar(categories[k][1]))
        \/ includes(input, categories[k][1]) }

getCategorySuggestions(input) ==
    IF matchedCategories(input) = { } THEN << >>
    ELSE categories[firstOf(matchedCategories(input))][2]

collected(normalizedInput) ==
    pushNew(pushNew(pushFuzzy(pushExact(normalizedInput), normalizedInput),
                    getContextualSuggestions(normalizedInput)),
            getCategorySuggestions(normalizedInput))

\* the list as collected, without slice(0, 8)
getIngredientSuggestionsUnsliced(input) ==
    IF Len(trim(toLowerCase(input))) < 2 THEN << >> ELSE collected(trim(toLowerCase(input)))

getIngredientSuggestions(input) ==
    IF Len(trim(toLowerCase(input))) < 2 THEN << >>
    ELSE SubSeq(collected(trim(toLowerCase(input))), 1,
                Min(8, Len(collected(trim(toLowerCase(input))))))

SuggestChars ==
    { " ", "t", "o", "T", "e" }

RECURSIVE typed(_)
typed(n) ==
    IF n = 0 THEN { "" } ELSE { s \o c : s \in typed(n - 1), c \in SuggestChars }

\* every text of up to three of the characters, and words that reach the
\* contextual and the category lists
SuggestInputs ==
    typed(0) \cup typed(1) \cup typed(2) \cup typed(3)
      \cup { "protein", "Rice ", "chicken", "veg", "fresh fruits", "spice", "x", "an" }

\* a call waiting to run
Suggesting(input) ==
    Some([ input |-> input, result |-> Undefined ])

CallGetIngredientSuggestions ==
    /\ suggest # Undefined
    /\ suggest[1].result = Undefined
    /\ suggest' = Some([ suggest[1] EXCEPT !.result = Some(getIngredientSuggestions(suggest[1].input)) ])
    /\ UNCHANGED << svcVars, svc, handlerVars, screenVars, storageVars, storeVars, vision, calc, analysis, conv >>

-----------------------------------------------------------------------------
(* EnhancedNutritionCalculatorService.  The per-100g facts are held in     *)
(* hundredths; the facts it returns are held like those of the other       *)
(* calculator (calories and sodium whole, the other fields in tenths).     *)

\* per 100 g, every field in hundredths, in the order of the keys
enhancedNutritionDB ==
    << << "tomato", N(1800, 90, 390, 20, 120, 260, 500) >>,
       << "onion", N(4000, 110, 930, 10, 170, 420, 400) >>,
       << "garlic", N(14900, 640, 3310, 50, 210, 100, 1700) >>,
       << "potato", N(7700, 200, 1750, 10, 220, 80, 600) >>,
       << "sweet potato", N(8600, 160, 2010, 10, 300, 420, 600) >>,
       << "carrot", N(4100, 90, 960, 20, 280, 470, 6900) >>,
       << "bell pepper", N(3100, 100, 730, 30, 250, 420, 400) >>,
       << "spinach", N(2300, 290, 360, 40, 220, 40, 7900) >>,
       << "broccoli", N(3400, 280, 660, 40, 260, 150, 3300) >>,
       << "cucumber", N(1600, 70, 400, 10, 50, 170, 200) >>,
       << "lettuce", N(1500, 140, 290, 20, 130, 80, 2800) >>,
       << "zucchini", N(1700, 120, 310, 30, 100, 250, 800) >>,
       << "mushroom", N(2200, 310, 330, 30, 100, 200, 500) >>,
       << "celery", N(1600, 70, 300, 20, 160, 130, 8000) >>,
       << "cauliflower", N(2500, 190, 500, 30, 200, 190, 3000) >>,
       << "chicken breast", N(16500, 3100, 0, 360, 0, 0, 7400) >>,
       << "chicken thigh", N(20900, 2600, 0, 1090, 0, 0, 8400) >>,
       << "chicken", N(23900, 2730, 0, 1360, 0, 0, 8200) >>,
       << "ground beef", N(25400, 2610, 0, 1570, 0, 0, 7500) >>,
       << "beef", N(25000, 2610, 0, 1540, 0, 0, 7200) >>,
       << "salmon", N(20800, 2540, 0, 1240, 0, 0, 5900) >>,
       << "tuna", N(18400, 3000, 0, 630, 0, 0, 4700) >>,
       << "fish", N(20600, 2200, 0, 1240, 0, 0, 5900) >>,
       << "egg", N(15500, 1300, 110, 1060, 0, 110, 12400) >>,
       << "tofu", N(7600, 810, 190, 480, 30, 60, 700) >>,
       << "black beans", N(13200, 890, 2370, 50, 870, 30, 200) >>,
       << "lentils", N(11600, 900, 2010, 40, 790, 180, 200) >>,
       << "chickpeas", N(16400, 890, 2740, 260, 760, 480, 700) >>,
       << "milk", N(4200, 340, 500, 100, 0, 500, 4400) >>,
       << "whole milk", N(6100, 320, 480, 330, 0, 480, 4300) >>,
       << "cheese", N(11300, 710, 100, 900, 0, 100, 62100) >>,
       << "cheddar cheese", N(40300, 2490, 130, 3310, 0, 50, 62100) >>,
       << "mozzarella", N(28000, 2220, 220, 1710, 0, 100, 62700) >>,
       << "yogurt", N(5900, 1000, 360, 40, 0, 320, 3600) >>,
       << "greek yogurt", N(9700, 900, 390, 500, 0, 320, 3500) >>,
       << "butter", N(71700, 90, 10, 8110, 0, 10, 1100) >>,
       << "white rice", N(13000, 270, 2820, 30, 40, 10, 500) >>,
       << "brown rice", N(12300, 230, 2300, 90, 180, 70, 300) >>,
       << "rice", N(13000, 270, 2820, 30, 40, 10, 500) >>,
       << "pasta", N(13100, 500, 2500, 110, 180, 60, 600) >>,
       << "whole wheat pasta", N(12400, 500, 2510, 140, 320, 80, 300) >>,
       << "bread", N(26500, 900, 4900, 320, 270, 500, 49100) >>,
       << "whole grain bread", N(24700, 1340, 4130, 420, 700, 560, 49100) >>,
       << "quinoa", N(12000, 440, 2200, 190, 280, 90, 700) >>,
       << "oats", N(38900, 1690, 6630, 690, 1060, 99, 200) >>,
       << "barley", N(12300, 230, 2820, 40, 380, 80, 300) >>,
       << "olive oil", N(88400, 0, 0, 10000, 0, 0, 200) >>,
       << "vegetable oil", N(88400, 0, 0, 10000, 0, 0, 0) >>,
       << "coconut oil", N(86200, 0, 0, 9910, 0, 0, 0) >>,
       << "avocado", N(16000, 200, 850, 1470, 670, 70, 700) >>,
       << "apple", N(5200, 30, 1380, 20, 240, 1040, 100) >>,
       << "banana", N(8900, 110, 2280, 30, 260, 1220, 100) >>,
       << "orange", N(4700, 90, 1180, 10, 240, 940, 0) >>,
       << "lemon", N(2900, 110, 930, 30, 280, 150, 200) >>,
       << "lime", N(3000, 70, 1050, 20, 280, 170, 200) >>,
       << "berries", N(5700, 70, 1450, 30, 240, 1000, 100) >>,
       << "strawberries", N(3200, 70, 770, 30, 200, 490, 100) >>,
       << "blueberries", N(5700, 70, 1450, 30, 240, 1000, 100) >>,
       << "basil", N(2200, 320, 260, 60, 160, 30, 400) >>,
       << "oregano", N(26500, 900, 6890, 430, 4250, 410, 2500) >>,
       << "thyme", N(10100, 560, 2450, 170, 1400, 170, 900) >>,
       << "parsley", N(3600, 300, 630, 80, 330, 90, 5600) >>,
       << "cilantro", N(2300, 210, 370, 50, 280, 90, 4600) >>,
       << "ginger", N(8000, 180, 1780, 80, 200, 170, 1300) >>,
       << "turmeric", N(35400, 780, 6490, 990, 2110, 320, 3800) >>,
       << "cumin", N(37500, 1780, 4420, 2230, 1050, 230, 16800) >>,
       << "paprika", N(28200, 1410, 5390, 1290, 3490, 1030, 6800) >>,
       << "almonds", N(57900, 2120, 2160, 4990, 1250, 440, 100) >>,
       << "walnuts", N(65400, 1520, 1370, 6520, 670, 260, 200) >>,
       << "peanuts", N(56700, 2580, 1610, 4920, 850, 470, 1800) >>,
       << "sunflower seeds", N(58400, 2080, 2000, 5150, 860, 260, 900) >>,
       << "chia seeds", N(48600, 1650, 4210, 3070, 3440, 0, 1600) >> >>

\* grams per unit, in ten-thousandths of a gram
enhancedConversions ==
    ("g" :> 10000) @@ ("gram" :> 10000) @@ ("grams" :> 10000) @@ ("kg" :> 10000000) @@
    ("kilogram" :> 10000000) @@ ("kilograms" :> 10000000) @@ ("lb" :> 4535920) @@
    ("pound" :> 4535920) @@ ("pounds" :> 4535920) @@ ("oz" :> 283495) @@
    ("ounce" :> 283495) @@ ("ounces" :> 283495) @@ ("ml" :> 10000) @@
    ("milliliter" :> 10000) @@ ("milliliters" :> 10000) @@ ("l" :> 10000000) @@
    ("liter" :> 10000000) @@ ("liters" :> 10000000) @@ ("cup" :> 2400000) @@
    ("cups" :> 2400000) @@ ("tbsp" :> 150000) @@ ("tablespoon" :> 150000) @@
    ("tablespoons" :> 150000) @@ ("tbs" :> 150000) @@ ("tsp" :> 50000) @@
    ("teaspoon" :> 50000) @@ ("teaspoons" :> 50000) @@ ("fl oz" :> 300000) @@
    ("fluid ounce" :> 300000) @@ ("fluid ounces" :> 300000) @@ ("pint" :> 4730000) @@
    ("pints" :> 4730000) @@ ("quart" :> 9460000) @@ ("quarts" :> 9460000) @@
    ("gallon" :> 37850000) @@ ("gallons" :> 37850000) @@ ("piece" :> 1000000) @@
    ("pieces" :> 1000000) @@ ("item" :> 1000000) @@ ("items" :> 1000000) @@
    ("small" :> 800000) @@ ("medium" :> 1500000) @@ ("large" :> 2000000) @@
    ("extra large" :> 2500000) @@ ("clove" :> 30000) @@ ("cloves" :> 30000) @@
    ("slice" :> 250000) @@ ("slices" :> 250000) @@ ("fillet" :> 1500000) @@
    ("fillets" :> 1500000) @@ ("breast" :> 2000000) @@ ("breasts" :> 2000000) @@
    ("thigh" :> 1200000) @@ ("thighs" :> 1200000) @@ ("handful" :> 500000) @@
    ("pinch" :> 10000) @@ ("dash" :> 20000) @@ ("sprinkle" :> 30000) @@
    ("bunch" :> 1000000) @@ ("head" :> 5000000) @@ ("stalk" :> 400000) @@
    ("stalks" :> 400000) @@ ("sprig" :> 50000) @@ ("sprigs" :> 50000)

\* this.nutritionDB[name], or Undefined
enhancedLookup(name) ==
    IF \E k \in 1..Len(enhancedNutritionDB) : enhancedNutritionDB[k][1] = name
    THEN Some(enhancedNutritionDB[CHOOSE k \in 1..Len(enhancedNutritionDB) :
                                    enhancedNutritionDB[k][1] = name][2])
    ELSE Undefined

\* s.split(' ')
RECURSIVE splitWords(_)
splitWords(s) ==
    IF \A i \in 1..Len(s) : charAt(s, i) # " " THEN << s >>
    ELSE << SubSeq(s, 1, (CHOOSE i \in 1..Len(s) :
                            charAt(s, i) = " " /\ \A j \in 1..(i - 1) : charAt(s, j) # " ") - 1) >>
         \o splitWords(SubSeq(s, (CHOOSE i \in 1..Len(s) :
                            charAt(s, i) = " " /\ \A j \in 1..(i - 1) : charAt(s, j) # " ") + 1,
                              Len(s)))

\* ingredientWords.filter(word => inputWords.includes(word)).length
wordOverlap(ingredientWords, inputWords) ==
    Len(SelectSeq(ingredientWords, LAMBDA word : arrayIncludes(inputWords, word)))

Max(a, b) ==
    IF a > b THEN a ELSE b

\* a score is a fraction << numerator, denominator >>
scoreGreater(p, q) ==
    p[1] * q[2] > q[1] * p[2]

\* the score the forEach of findBestNutritionMatch gives to a key
matchScore(ingredient, ingredientName) ==
    IF ( includes(ingredient, ingredientName) \/ includes(ingredientName, ingredient) )
       /\ ~ scoreGreater(<< wordOverlap(splitWords(ingredient), splitWords(ingredientName)),
                            Max(Len(splitWords(ingredient)), Len(splitWords(ingredientName))) >>,
                         << 4, 5 >>)
    THEN << 4, 5 >>
    ELSE << wordOverlap(splitWords(ingredient), splitWords(ingredientName)),
            Max(Len(splitWords(ingredient)), Len(splitWords(ingredientName))) >>

\* the keys whose score is above 0.6
matchCandidates(ingredientName) ==
    { k \in 1..Len(enhancedNutritionDB) :
        scoreGreater(matchScore(enhancedNutritionDB[k][1], ingredientName), << 3, 5 >>) }

\* the first key above the threshold, whatever its score
firstCandidate(ingredientName, candidates) ==
    firstOf(candidates)

\* the key the loop ends with: the first one with the highest score
bestCandidate(ingredientName, candidates) ==
    CHOOSE k \in candidates :
      \A j \in candidates :
        /\ ~ scoreGreater(matchScore(enhancedNutritionDB[j][1], ingredientName),
                          matchScore(enhancedNutritionDB[k][1], ingredientName))
        /\ j < k => scoreGreater(matchScore(enhancedNutritionDB[k][1], ingredientName),
                                 matchScore(enhancedNutritionDB[j][1], ingredientName))

\* null is Undefined
findBestNutritionMatch(ingredientName) ==
    IF matchCandidates(ingredientName) = {} THEN Undefined
    ELSE Some(enhancedNutritionDB[bestCandidate(ingredientName,
                                                matchCandidates(ingredientName))][2])

endsWithS(name) ==
    Len(name) > 4 /\ charAt(name, Len(name)) = "s"

enhancedIsVegetable(name) ==
    \/ someIncluded(name, << "vegetable", "veggie", "greens", "leafy", "cabbage", "kale",
                             "celery", "radish", "turnip", "beet", "artichoke", "asparagus",
                             "brussels sprouts", "eggplant", "squash", "pumpkin", "corn",
                             "peas", "beans" >>)
    \/ endsWithS(name)

enhancedIsFruit(name) ==
    someIncluded(name, << "fruit", "berry", "berries", "grape", "grapes", "peach", "peaches",
                          "pear", "pears", "cherry", "cherries", "plum", "plums", "mango",
                          "mangoes", "pineapple", "watermelon", "cantaloupe", "honeydew",
                          "kiwi" >>)

enhancedIsProtein(name) ==
    someIncluded(name, << "meat", "protein", "turkey", "duck", "lamb", "pork", "salmon", "tuna",
                          "cod", "halibut", "shrimp", "crab", "lobster", "scallops", "mussels",
                          "tempeh", "seitan" >>)

enhancedIsGrain(name) ==
    someIncluded(name, << "grain", "wheat", "barley", "oats", "flour", "noodle", "noodles",
                          "cereal", "crackers", "couscous", "bulgur", "millet", "amaranth" >>)

enhancedIsDairy(name) ==
    someIncluded(name, << "dairy", "cream", "sour cream", "cottage cheese", "mozzarella",
                          "parmesan", "swiss", "cheddar", "goat cheese", "feta", "ricotta",
                          "mascarpone" >>)

isNutOrSeed(name) ==
    someIncluded(name, << "nut", "nuts", "seed", "seeds", "cashew", "cashews", "pecan", "pecans",
                          "hazelnut", "hazelnuts", "pistachio", "pistachios", "macadamia",
                          "brazil nut", "pine nut", "sesame", "pumpkin seed", "flax" >>)

isOil(name) ==
    someIncluded(name, << "oil", "fat", "lard", "shortening", "ghee" >>)

DefaultEstimate ==
    N(5000, 200, 800, 100, 100, 200, 2000)

getIntelligentNutritionEstimate(ingredientName) ==
    IF enhancedIsVegetable(ingredientName) THEN N(2500, 200, 500, 20, 200, 300, 1000)
    ELSE IF enhancedIsFruit(ingredientName) THEN N(5000, 50, 1200, 20, 200, 800, 100)
    ELSE IF enhancedIsProtein(ingredientName) THEN N(20000, 2000, 0, 1000, 0, 0, 7000)
    ELSE IF enhancedIsGrain(ingredientName) THEN N(12000, 300, 2500, 100, 200, 100, 500)
    ELSE IF enhancedIsDairy(ingredientName) THEN N(8000, 500, 400, 400, 0, 400, 5000)
    ELSE IF isNutOrSeed(ingredientName) THEN N(55000, 1800, 1500, 4500, 800, 300, 500)
    ELSE IF isOil(ingredientName) THEN N(88400, 0, 0, 10000, 0, 0, 0)
    ELSE DefaultEstimate

enhancedConvertToGrams(quantity, unit) ==
    gramsOf(NumOr(parseFloatThousandths(stripNonNumeric(quantity)), 100000),
            IF trim(toLowerCase(unit)) \in DOMAIN enhancedConversions
            THEN enhancedConversions[trim(toLowerCase(unit))]
            ELSE UnknownUnitFactor)

\* Math.round(a * b / 10^8) for 0 <= a <= 10^5 and b >= 0
roundE8(a, b) ==
    a * (b \div 100000000)
    + ((a * ((b % 100000000) \div 10000)) \div 10000)
    + ((10000 * ((a * ((b % 100000000) \div 10000)) % 10000)
        + a * (b % 10000) + 50000000) \div 100000000)

\* base in hundredths, grams in ten-thousandths of a gram: Math.round(base *
\* factor) as a whole number, Math.round(base * factor * 10) in tenths
scaledWhole(base, grams) ==
    roundE8(base, grams)

scaledTenths(base, grams) ==
    roundE8(10 * base, grams)

quantityInGrams(ingredient) ==
    enhancedConvertToGrams(IF ingredient.quantity = "" THEN "100" ELSE ingredient.quantity,
                           IF ingredient.unit = "" THEN "g" ELSE ingredient.unit)

scaleEnhanced(baseNutrition, grams) ==
    [ calories |-> scaledWhole(baseNutrition.calories, grams),
      protein  |-> scaledTenths(baseNutrition.protein, grams),
      carbs    |-> scaledTenths(baseNutrition.carbs, grams),
      fat      |-> scaledTenths(baseNutrition.fat, grams),
      fiber    |-> scaledTenths(baseNutrition.fiber, grams),
      sugar    |-> scaledTenths(baseNutrition.sugar, grams),
      sodium   |-> scaledWhole(baseNutrition.sodium, grams) ]

calculateWithQuantity(baseNutrition, ingredient) ==
    scaleEnhanced(baseNutrition, quantityInGrams(ingredient))


\* a nutrient of a USDA food: nutrient.nutrient?.name and nutrient.amount (in
\* hundredths), each possibly missing
Nutrient(name, amount) ==
    [ name |-> name, amount |-> amount ]

\* the forEach of parseUSDANutritionData over the nutrients from index k on
RECURSIVE assignNutrients(_, _, _)
assignNutrients(nutritionData, nutrients, k) ==
    IF k > Len(nutrients) THEN nutritionData
    ELSE assignNutrients(
           LET name  == toLowerCase(StrOr(nutrients[k].name, ""))
               value == NumOr(nutrients[k].amount, 0)
           IN  IF includes(name, "energy") \/ includes(name, "calorie")
               THEN [ nutritionData EXCEPT !.calories = value ]
               ELSE IF includes(name, "protein")
               THEN [ nutritionData EXCEPT !.protein = value ]
               ELSE IF includes(name, "carbohydrate")
               THEN [ nutritionData EXCEPT !.carbs = value ]
               ELSE IF includes(name, "total lipid") \/ includes(name, "fat")
               THEN [ nutritionData EXCEPT !.fat = value ]
               ELSE IF includes(name, "fiber")
               THEN [ nutritionData EXCEPT !.fiber = value ]
               ELSE IF includes(name, "sugar")
               THEN [ nutritionData EXCEPT !.sugar = value ]
               ELSE IF includes(name, "sodium")
               THEN [ nutritionData EXCEPT !.sodium = value ]
               ELSE nutritionData,
           nutrients, k + 1)

\* data.foodNutrients || []
parseUSDANutritionData(data) ==
    assignNutrients(ZeroNutrition, OrDefault(data.foodNutrients, << >>), 1)

\* what the two requests of fetchNutritionFromUSDA yield for a query: the
\* search throws, finds no food or finds one; the request for the food
\* throws (Undefined) or yields its data
UsdaAnswer(search, food) ==
    [ search |-> search, food |-> food ]

UsdaFoods ==
    { [ foodNutrients |-> Undefined ],
      [ foodNutrients |-> Some(<< Nutrient(Some("Energy"), Some(4900)),
                                  Nutrient(Some("Protein"), Some(430)),
                                  Nutrient(Some("Total lipid (fat)"), Some(93)),
                                  Nutrient(Some("Fiber, total dietary"), Undefined),
                                  Nutrient(Undefined, Some(100)),
                                  Nutrient(Some("Sodium, Na"), Some(3800)) >>) ] }

UsdaAnswers ==
    { UsdaAnswer("throws", Undefined), UsdaAnswer("noFoods", Undefined),
      UsdaAnswer("found", Undefined) }
    \cup { UsdaAnswer("found", Some(data)) : data \in UsdaFoods }

\* one calculator: impl tells the two implementations apart, usdaKey is the
\* USDA API key being set, usda the answer of the USDA service,
\* nutritionCache the cache as a set of << name, facts >>; then the running
\* calculateRecipeNutrition call (its arguments, the index of the ingredient
\* it works on, the total so far, how each ingredient was resolved) and the
\* calls that have returned
IdleCalc ==
    [ impl |-> "basic", usdaKey |-> FALSE, usda |-> UsdaAnswer("throws", Undefined),
      nutritionCache |-> {}, pc |-> "idle", ingredients |-> << >>, servings |-> 1,
      k |-> 1, total |-> ZeroNutrition, resolved |-> << >>, returned |-> {} ]

\* how one ingredient was resolved: the source, the per-100g facts taken
\* from it and the facts returned for the ingredient
Resolution(source, base, nutrition) ==
    [ source |-> source, base |-> base, nutrition |-> nutrition ]

cached(cache, name) ==
    { e \in cache : e[1] = name }

\* the last entry set for the name
cacheGet(cache, name) ==
    (CHOOSE e \in cached(cache, name) : TRUE)[2]

cacheSet(cache, name, facts) ==
    (cache \ cached(cache, name)) \cup { << name, facts >> }

NutritionIngredient(name, quantity, unit) ==
    [ id |-> "ing_0", name |-> name, quantity |-> quantity, unit |-> unit, category |-> "" ]

\* a name of the tables, a name that only a fuzzy match finds, a name that
\* only falls in a category, a name that nothing knows
NutritionPool ==
    { NutritionIngredient(" Tomato", "2", "cups"),
      NutritionIngredient("cherry tomato", "1.5", "piece"),
      NutritionIngredient("potato sweet", "1", "cup"),
      NutritionIngredient("kale", "", ""),
      NutritionIngredient("xyz", "3 level", "Tbsp") }

normalizedNameOf(ingredient) ==
    trim(toLowerCase(ingredient.name))

hasCategory(name) ==
    \/ enhancedIsVegetable(name) \/ enhancedIsFruit(name) \/ enhancedIsProtein(name)
    \/ enhancedIsGrain(name) \/ enhancedIsDairy(name) \/ isNutOrSeed(name) \/ isOil(name)

\* the last step of calculateIngredientNutrition
estimated(normalizedName, ingredient) ==
    Resolution(IF hasCategory(normalizedName) THEN "estimate" ELSE "default",
               getIntelligentNutritionEstimate(normalizedName),
               calculateWithQuantity(getIntelligentNutritionEstimate(normalizedName),
                                     ingredient))

\* the table lookup and the fuzzy match of calculateIngredientNutrition;
\* Undefined: neither has the name
resolvedFromTable(normalizedName, ingredient) ==
    IF enhancedLookup(normalizedName) # Undefined
    THEN Some(Resolution("exact", enhancedLookup(normalizedName)[1],
                         calculateWithQuantity(enhancedLookup(normalizedName)[1], ingredient)))
    ELSE IF findBestNutritionMatch(normalizedName) # Undefined
    THEN Some(Resolution("fuzzy", findBestNutritionMatch(normalizedName)[1],
                         calculateWithQuantity(findBestNutritionMatch(normalizedName)[1],
                                               ingredient)))
    ELSE Undefined

\* resolvedFromTable and estimated on the ingredients of the pool, computed
\* once
TableResolutions ==
    [ ingredient \in NutritionPool |->
        resolvedFromTable(normalizedNameOf(ingredient), ingredient) ]

Estimates ==
    [ ingredient \in NutritionPool |-> estimated(normalizedNameOf(ingredient), ingredient) ]

\* calculateIngredientNutrition up to the call of fetchNutritionFromUSDA;
\* Undefined: neither the cache nor the table nor a fuzzy match has the name
resolvedLocally(cache, normalizedName, ingredient) ==
    IF cached(cache, normalizedName) # {}
    THEN Some(Resolution("cache", cacheGet(cache, normalizedName),
                         calculateWithQuantity(cacheGet(cache, normalizedName), ingredient)))
    ELSE TableResolutions[ingredient]

\* the call record of a call that returned
Returned(call, result) ==
    [ ingredients |-> call.ingredients, servings |-> call.servings,
      resolved |-> call.resolved, result |-> result ]

\* calculateRecipeNutrition returns
calcReturns(call) ==
    [ call EXCEPT !.pc = "idle", !.ingredients = << >>, !.servings = 1, !.k = 1,
                  !.total = ZeroNutrition, !.resolved = << >>,
                  !.returned = call.returned
                               \cup { Returned(call, perServing(call.total, call.servings)) } ]

\* the loop body after calculateIngredientNutrition returned
addResolved(call, resolution) ==
    [ call EXCEPT !.k = call.k + 1,
                  !.total = addNutrition(call.total, resolution.nutrition),
                  !.resolved = Append(call.resolved, resolution) ]

\* the for loop of calculateRecipeNutrition from ingredient k on, up to the
\* next request to the USDA service or to the return
RECURSIVE runCalculation(_)
runCalculation(call) ==
    IF call.k > Len(call.ingredients) THEN calcReturns(call)
    ELSE IF resolvedLocally(call.nutritionCache, normalizedNameOf(call.ingredients[call.k]),
                            call.ingredients[call.k]) # Undefined
    THEN runCalculation(
           addResolved(call,
                       resolvedLocally(call.nutritionCache,
                                       normalizedNameOf(call.ingredients[call.k]),
                                       call.ingredients[call.k])[1]))
    ELSE IF ~ call.usdaKey
    THEN runCalculation(addResolved(call, Estimates[call.ingredients[call.k]]))
    ELSE [ call EXCEPT !.pc = "search" ]

\* fetchNutritionFromUSDA returned null
afterNoUsdaData(call) ==
    runCalculation(addResolved(call, Estimates[call.ingredients[call.k]]))

\* fetchNutritionFromUSDA returned the parsed facts
afterUsdaData(call, apiNutrition) ==
    runCalculation(
      addResolved([ call EXCEPT !.nutritionCache =
                      cacheSet(call.nutritionCache,
                               normalizedNameOf(call.ingredients[call.k]), apiNutrition) ],
                  Resolution("usda", apiNutrition,
                             calculateWithQuantity(apiNutrition, call.ingredients[call.k]))))

\* how the calculator of part_003 resolves one ingredient
basicResolution(ingredient) ==
    Resolution(IF normalizedNameOf(ingredient) \in DOMAIN nutritionDB THEN "exact"
               ELSE IF \/ isVegetable(normalizedNameOf(ingredient))
                       \/ isFruit(normalizedNameOf(ingredient))
                       \/ isProtein(normalizedNameOf(ingredient))
                       \/ isGrain(normalizedNameOf(ingredient))
                       \/ isDairy(normalizedNameOf(ingredient))
               THEN "estimate"
               ELSE "default",
               IF normalizedNameOf(ingredient) \in DOMAIN nutritionDB
               THEN nutritionDB[normalizedNameOf(ingredient)]
               ELSE getEstimatedNutrition(normalizedNameOf(ingredient)),
               calculateIngredientNutrition(ingredient))

\* basicResolution on the ingredients of the pool, computed once
BasicResolutions ==
    [ ingredient \in NutritionPool |-> basicResolution(ingredient) ]

\* the synchronous calculateRecipeNutrition of part_003 as a call that returned
basicReturned(ings, servingCount) ==
    [ ingredients |-> ings, servings |-> servingCount,
      resolved |-> [ k \in 1..Len(ings) |-> BasicResolutions[ings[k]] ],
      result |-> calculateRecipeNutrition(ings, servingCount) ]

\* calls of calculateRecipeNutrition made on one calculator
MaxCalls ==
    3

\* one ingredient, or one ingredient followed by one the table does not hold
NutritionLists ==
    { l \in UNION { [ 1..n -> NutritionPool ] : n \in 1..2 } :
        Len(l) = 2 => l[2].name \in { "xyz", "kale" } }

\* every list at servings 1, and the lists that start with the unknown
\* ingredient at the other servings values
NutritionInputs ==
    [ ingredients : NutritionLists, servings : { 1 } ]
    \cup [ ingredients : { l \in NutritionLists : l[1].name = "xyz" },
           servings : { 0 - 2, 0, 3 } ]

\* calculateRecipeNutrition is called: the whole call for the synchronous
\* implementation, up to the first request to the USDA service for the other
CallCalculateRecipeNutrition ==
    /\ calc.pc = "idle"
    /\ Cardinality(calc.returned) < MaxCalls
    /\ \E input \in NutritionInputs :
         calc' = IF calc.impl = "basic"
                 THEN [ calc EXCEPT !.returned =
                          calc.returned \cup { basicReturned(input.ingredients,
                                                             input.servings) } ]
                 ELSE runCalculation([ calc EXCEPT !.ingredients = input.ingredients,
                                                   !.servings = input.servings ])
    /\ UNCHANGED << svcVars, svc, handlerVars, screenVars, storageVars, storeVars, vision, suggest, analysis, conv >>

\* the search request of fetchNutritionFromUSDA returns or throws
UsdaSearchResponds ==
    /\ calc.pc = "search"
    /\ calc' = IF calc.usda.search = "found"
               THEN [ calc EXCEPT !.pc = "food" ]
               ELSE afterNoUsdaData(calc)
    /\ UNCHANGED << svcVars, svc, handlerVars, screenVars, storageVars, storeVars, vision, suggest, analysis, conv >>

\* the request for the food returns or throws
UsdaFoodResponds ==
    /\ calc.pc = "food"
    /\ calc' = IF calc.usda.food = Undefined
               THEN afterNoUsdaData(calc)
               ELSE afterUsdaData(calc, parseUSDANutritionData(calc.usda.food[1]))
    /\ UNCHANGED << svcVars, svc, handlerVars, screenVars, storageVars, storeVars, vision, suggest, analysis, conv >>

-----------------------------------------------------------------------------
(* EnhancedNutritionCalculatorService: getDetailedNutritionAnalysis.  The  *)
(* argument is a NutritionInfo as calculateRecipeNutrition returns it:     *)
(* calories and sodium whole, the other fields in tenths of a gram.        *)

NeutralAnalysis ==
    [ analysis |-> << >>, healthScore |-> 50, recommendations |-> << >> ]

noted(acc, text, delta) ==
    [ acc EXCEPT !.analysis = Append(@, text), !.healthScore = @ + delta ]

recommended(acc, text) ==
    [ acc EXCEPT !.recommendations = Append(@, text) ]

calorieAnalysis(nutrition, acc) ==
    IF nutrition.calories < 200
      THEN noted(acc, "Low calorie dish - great for weight management", 10)
      ELSE IF nutrition.calories > 600
             THEN recommended(noted(acc, "High calorie dish - consider portion control", -5),
                              "Consider reducing portion size or adding more vegetables")
             ELSE acc

proteinAnalysis(nutrition, acc) ==
    IF nutrition.protein > 150
      THEN noted(acc, "High protein content - excellent for muscle building", 15)
      ELSE IF nutrition.protein < 50
             THEN recommended(noted(acc, "Low protein content", 0),
                              "Add protein sources like beans, tofu, or lean meat")
             ELSE acc

fiberAnalysis(nutrition, acc) ==
    IF nutrition.fiber > 50
      THEN noted(acc, "High fiber content - great for digestive health", 10)
      ELSE IF nutrition.fiber < 20
             THEN recommended(acc, "Add more vegetables or whole grains for fiber")
             ELSE acc

sugarAnalysis(nutrition, acc) ==
    IF nutrition.sugar > 150
      THEN recommended(noted(acc, "High sugar content", -5), "Consider reducing sweet ingredients")
      ELSE acc

sodiumAnalysis(nutrition, acc) ==
    IF nutrition.sodium > 800
      THEN recommended(noted(acc, "High sodium content", -10),
                       "Reduce salt and use herbs/spices for flavor")
      ELSE IF nutrition.sodium < 200
             THEN noted(acc, "Low sodium - heart-healthy option", 5)
             ELSE acc

\* (fat * 9 / calories) * 100 compared with 35 and 20.  Dividing by zero
\* calories gives Infinity when there is fat and NaN when there is none, and
\* NaN is neither above 35 nor below 20.
fatPercentage(nutrition) ==
    IF nutrition.calories = 0
      THEN IF nutrition.fat = 0 THEN "NaN" ELSE "high"
      ELSE IF nutrition.fat * 90 > 35 * nutrition.calories
             THEN "high"
             ELSE IF nutrition.fat * 90 < 20 * nutrition.calories THEN "low" ELSE "moderate"

fatAnalysis(nutrition, acc) ==
    IF fatPercentage(nutrition) = "high"
      THEN noted(acc, "High fat content", -5)
      ELSE IF fatPercentage(nutrition) = "low"
             THEN noted(acc, "Low fat content", 5)
             ELSE acc

scored(nutrition, start) ==
    fatAnalysis(nutrition,
      sodiumAnalysis(nutrition,
        sugarAnalysis(nutrition,
          fiberAnalysis(nutrition,
            proteinAnalysis(nutrition,
              calorieAnalysis(nutrition, start))))))

\* the adjustments alone, without the neutral start and the clamp
getDetailedNutritionAnalysisOffset(nutrition) ==
    scored(nutrition, [ NeutralAnalysis EXCEPT !.healthScore = 0 ])

getDetailedNutritionAnalysis(nutrition) ==
    [ scored(nutrition, NeutralAnalysis) EXCEPT !.healthScore = Max(0, Min(100, @)) ]

\* arguments on both sides of every threshold
AnalysisInputs ==
    [ calories : { 0, 199, 200, 600, 601 },
      protein  : { 0, 50, 150, 151 },
      carbs    : { 0, 300 },
      fat      : { 0, 50, 300 },
      fiber    : { 0, 20, 50, 51 },
      sugar    : { 0, 150, 151 },
      sodium   : { 0, 200, 800, 801 } ]

\* a call waiting to run
Analysing(nutrition) ==
    Some([ nutrition |-> nutrition, result |-> Undefined ])

CallGetDetailedNutritionAnalysis ==
    /\ analysis # Undefined
    /\ analysis[1].result = Undefined
    /\ analysis' = Some([ analysis[1] EXCEPT
                             !.result = Some(getDetailedNutritionAnalysis(analysis[1].nutrition)) ])
    /\ UNCHANGED << svcVars, svc, handlerVars, screenVars, storageVars, storeVars, vision, suggest, calc, conv >>

-----------------------------------------------------------------------------
(* convertToGrams of either calculator on its own                          *)

QuantityTexts ==
    { "0", "1", "2", "3", "1.5", "", "abc", "1 1/2", "about 2", "2 large", ".5", "0.0" }

UnitTexts ==
    { "cup", "tbsp", "clove", "cloves", "Cups ", "g", "xyz", "" }

\* a call waiting to run
Converting(impl, quantity, unit) ==
    Some([ impl |-> impl, quantity |-> quantity, unit |-> unit, result |-> Undefined ])

CallConvertToGrams ==
    /\ conv # Undefined
    /\ conv[1].result = Undefined
    /\ conv' = Some([ conv[1] EXCEPT !.result =
                        Some(IF conv[1].impl = "basic"
                             THEN convertToGrams(conv[1].quantity, conv[1].unit)
                             ELSE enhancedConvertToGrams(conv[1].quantity, conv[1].unit)) ])
    /\ UNCHANGED << svcVars, svc, handlerVars, screenVars, storageVars, storeVars,
                    vision, suggest, calc, analysis >>

-----------------------------------------------------------------------------
(* DatabaseService calls made side by side: the generator screen saves the *)
(* recipe it got, the detail screen saves and rates its recipe, the home   *)
(* screen deletes recipes and the history is read.  Each call suspends at  *)
(* its AsyncStorage.getItem and setItem.                                   *)

\* the ids generateId gives to the recipes the generator screen saves
GeneratedIds ==
    { 1, 2 }

\* what the DatabaseService calls leave alone
appVars ==
    << apiKey, request, svc, categorized, estServings, handlerVars, screenVars,
       vision, suggest, calc, analysis, conv >>

Callers ==
    { "generator", "detail", "home" }

\* a recipe as far as DatabaseService looks at it; rating 0: not rated
StoreRecipe(id) ==
    [ id |-> id, name |-> "Recipe " \o toString(id), rating |-> 0 ]

IdleOp ==
    [ op |-> "none", pc |-> "idle", arg |-> Undefined, rating |-> 0, read |-> Undefined,
      clean |-> TRUE ]

\* a call up to its first await; clean says that no other call has written
\* since
StartOp(op, arg, rating) ==
    [ op |-> op,
      pc |-> IF op \in { "addToRecipeHistory", "getRecipeHistory" } THEN "getHistory"
             ELSE "getRecipes",
      arg |-> arg, rating |-> rating, read |-> Undefined, clean |-> TRUE ]

\* recipes.find(recipe => recipe.id === id); undefined is Undefined
find(recipes, id) ==
    IF \E k \in 1..Len(recipes) : recipes[k].id = id
    THEN Some(recipes[CHOOSE k \in 1..Len(recipes) :
                        recipes[k].id = id /\ \A j \in 1..(k - 1) : recipes[j].id # id])
    ELSE Undefined

\* recipes.findIndex(recipe => recipe.id === id), counted from 1; -1 is 0
findIndex(recipes, id) ==
    IF \E k \in 1..Len(recipes) : recipes[k].id = id
    THEN CHOOSE k \in 1..Len(recipes) :
           recipes[k].id = id /\ \A j \in 1..(k - 1) : recipes[j].id # id
    ELSE 0

\* recipes.filter(recipe => recipe.id !== recipeId)
filteredRecipes(recipes, recipeId) ==
    SelectSeq(recipes, LAMBDA recipe : recipe.id # recipeId)

\* updateRecipe that adds the recipe instead of putting it in its place
replacedByAppending(recipes, updatedRecipe) ==
    Append(recipes, updatedRecipe)

\* recipes[recipeIndex] = updatedRecipe
replaced(recipes, updatedRecipe) ==
    [ recipes EXCEPT ![findIndex(recipes, updatedRecipe.id)] = updatedRecipe ]

\* historyIds.map(id => recipes.find(recipe => recipe.id === id))
historyRecipesMapped(historyIds, recipes) ==
    [ k \in 1..Len(historyIds) |-> find(recipes, historyIds[k]) ]

\* getRecipeHistory without its filter
historyRecipesUnfiltered(historyIds, recipes) ==
    historyRecipesMapped(historyIds, recipes)

\* historyIds.map(id => recipes.find(...)).filter(recipe => recipe !== undefined)
historyRecipes(historyIds, recipes) ==
    SelectSeq(historyRecipesMapped(historyIds, recipes),
              LAMBDA recipe : recipe # Undefined)

NoAudit ==
    [ savedOk |-> { }, deleted |-> { }, last |-> Undefined ]

\* a step in which no call returns
notReturning ==
    audit' = [ audit EXCEPT !.last = Undefined ]

\* the call of a caller returned result in this step
audited(caller, call, result) ==
    [ savedOk |-> IF call.op = "saveRecipe" /\ result = TRUE
                  THEN audit.savedOk \cup { call.arg.id } ELSE audit.savedOk,
      deleted |-> audit.deleted,
      last    |-> Some([ caller |-> caller, op |-> call.op, arg |-> call.arg,
                         rating |-> call.rating, clean |-> call.clean,
                         result |-> result ]) ]

\* the other running calls have seen a write
touched(calls, writer) ==
    [ c \in Callers |-> IF c # writer /\ calls[c].pc # "idle"
                        THEN [ calls[c] EXCEPT !.clean = FALSE ] ELSE calls[c] ]

\* what the caller does when its call returned: the generator screen goes on
\* to addToRecipeHistory and then opens the detail screen with isNewRecipe,
\* the detail screen sets isSaved after a successful save
resumeCaller(caller, call, result, calls) ==
    /\ audit' = audited(caller, call, result)
    /\ IF caller = "generator" /\ call.op = "saveRecipe"
       THEN /\ ops' = [ calls EXCEPT ![caller] =
                          StartOp("addToRecipeHistory", call.arg, 0) ]
            /\ UNCHANGED detail
       ELSE /\ ops' = [ calls EXCEPT ![caller] = IdleOp ]
            /\ detail' =
                 IF caller = "generator"
                 THEN Some([ recipe |-> call.arg, isSaved |-> FALSE, isLoading |-> FALSE ])
                 ELSE IF caller = "detail" /\ call.op = "saveRecipe" /\ detail # Undefined
                 THEN Some([ detail[1] EXCEPT !.isSaved = (result = TRUE) \/ @,
                                              !.isLoading = FALSE ])
                 ELSE detail

\* RecipeGeneratorScreen.generateRecipe from the recipe on: saveRecipe(recipe)
GeneratorSaves ==
    /\ ops["generator"].pc = "idle"
    /\ nextId \in GeneratedIds
    /\ ops' = [ ops EXCEPT !["generator"] =
                  StartOp("saveRecipe", StoreRecipe(nextId), 0) ]
    /\ nextId' = nextId + 1
    /\ notReturning
    /\ UNCHANGED << detail, storageVars, appVars >>

\* RecipeDetailScreen.handleSaveRecipe; the button shows while !isSaved and
\* is disabled while isLoading
DetailPressSave ==
    /\ detail # Undefined
    /\ ~ detail[1].isSaved
    /\ ~ detail[1].isLoading
    /\ ops["detail"].pc = "idle"
    /\ detail' = Some([ detail[1] EXCEPT !.isLoading = TRUE ])
    /\ ops' = [ ops EXCEPT !["detail"] =
                  StartOp("saveRecipe", detail[1].recipe, 0) ]
    /\ notReturning
    /\ UNCHANGED << nextId, storageVars, appVars >>

Stars ==
    { 5 }

\* RecipeDetailScreen.handleRateRecipe
DetailRates ==
    /\ detail # Undefined
    /\ ops["detail"].pc = "idle"
    /\ \E star \in Stars :
         /\ detail' = Some([ detail[1] EXCEPT !.recipe.rating = star ])
         /\ ops' = IF detail[1].isSaved
                   THEN [ ops EXCEPT !["detail"] =
                            StartOp("rateRecipe", detail[1].recipe, star) ]
                   ELSE ops
    /\ notReturning
    /\ UNCHANGED << nextId, storageVars, appVars >>

\* HomeScreen opens the detail screen on a saved recipe (isNewRecipe unset)
HomeOpensDetail ==
    /\ ops["detail"].pc = "idle"
    /\ \E k \in 1..Len(savedRecipes) :
         /\ detail # Some([ recipe |-> savedRecipes[k], isSaved |-> TRUE, isLoading |-> FALSE ])
         /\ detail' = Some([ recipe |-> savedRecipes[k], isSaved |-> TRUE, isLoading |-> FALSE ])
    /\ notReturning
    /\ UNCHANGED << nextId, ops, storageVars, appVars >>

\* HomeScreen.handleDeleteRecipe once confirmed
HomeDeletes ==
    /\ ops["home"].pc = "idle"
    /\ \E k \in 1..Len(savedRecipes) :
         /\ ops' = [ ops EXCEPT !["home"] =
                       StartOp("deleteRecipe", savedRecipes[k], 0) ]
         /\ audit' = [ audit EXCEPT !.deleted = @ \cup { savedRecipes[k].id }, !.last = Undefined ]
    /\ UNCHANGED << nextId, detail, storageVars, appVars >>

\* DatabaseService.getRecipeHistory is called
CallGetRecipeHistory ==
    /\ ops["home"].pc = "idle"
    /\ recipeHistory # << >>
    /\ ops' = [ ops EXCEPT !["home"] = StartOp("getRecipeHistory", Undefined, 0) ]
    /\ notReturning
    /\ UNCHANGED << nextId, detail, storageVars, appVars >>

\* AsyncStorage.getItem resolves for the call of a caller
StoreGetItemResolves ==
    \E c \in Callers :
      /\ ops[c].pc \in { "getRecipes", "getRecipes2", "getHistory" }
      /\ UNCHANGED << nextId, storageVars, appVars >>
      /\ CASE ops[c].op \in { "saveRecipe", "deleteRecipe" } ->
                /\ ops' = [ ops EXCEPT ![c].pc = "setRecipes", ![c].read = Some(savedRecipes) ]
                /\ notReturning
                /\ UNCHANGED detail
           [] ops[c].op = "addToRecipeHistory" ->
                /\ ops' = [ ops EXCEPT ![c].pc = "setHistory", ![c].read = Some(recipeHistory) ]
                /\ notReturning
                /\ UNCHANGED detail
           [] ops[c].op = "getRecipeHistory" /\ ops[c].pc = "getHistory" ->
                /\ ops' = [ ops EXCEPT ![c].pc = "getRecipes", ![c].read = Some(recipeHistory) ]
                /\ notReturning
                /\ UNCHANGED detail
           [] ops[c].op = "getRecipeHistory" /\ ops[c].pc = "getRecipes" ->
                resumeCaller(c, ops[c], historyRecipes(ops[c].read[1], savedRecipes), ops)
           [] ops[c].op = "rateRecipe" /\ ops[c].pc = "getRecipes" ->
                \* getRecipeById, then recipe.rating = rating
                IF find(savedRecipes, ops[c].arg.id) = Undefined
                THEN resumeCaller(c, ops[c], FALSE, ops)
                ELSE /\ ops' = [ ops EXCEPT
                                   ![c].pc = "getRecipes2",
                                   ![c].read = Some([ find(savedRecipes, ops[c].arg.id)[1]
                                                        EXCEPT !.rating = ops[c].rating ]) ]
                     /\ notReturning
                     /\ UNCHANGED detail
           [] ops[c].op = "rateRecipe" /\ ops[c].pc = "getRecipes2" ->
                \* updateRecipe(recipe) up to setItem
                IF findIndex(savedRecipes, ops[c].read[1].id) = 0
                THEN resumeCaller(c, ops[c], FALSE, ops)
                ELSE /\ ops' = [ ops EXCEPT
                                   ![c].pc = "setRecipes",
                                   ![c].read = Some(replaced(savedRecipes, ops[c].read[1])) ]
                     /\ notReturning
                     /\ UNCHANGED detail

\* AsyncStorage.setItem resolves for the call of a caller, which returns true
StoreSetItemResolves ==
    \E c \in Callers :
      /\ ops[c].pc \in { "setRecipes", "setHistory" }
      /\ UNCHANGED << nextId, lastAdded, appVars >>
      /\ IF ops[c].pc = "setHistory"
         THEN /\ recipeHistory' = updatedHistory(ops[c].read[1], ops[c].arg.id)
              /\ UNCHANGED savedRecipes
              /\ resumeCaller(c, ops[c], TRUE, touched(ops, c))
         ELSE /\ UNCHANGED recipeHistory
              /\ \E written \in { CASE ops[c].op = "saveRecipe" ->
                                        updatedRecipes(ops[c].read[1], ops[c].arg)
                                    [] ops[c].op = "deleteRecipe" ->
                                        filteredRecipes(ops[c].read[1], ops[c].arg.id)
                                    [] OTHER -> ops[c].read[1] } :
                   /\ savedRecipes' = written
                   /\ resumeCaller(c, ops[c], TRUE, touched(ops, c))

StoreNext ==
    \/ GeneratorSaves
    \/ DetailPressSave
    \/ DetailRates
    \/ HomeOpensDetail
    \/ HomeDeletes
    \/ CallGetRecipeHistory
    \/ StoreGetItemResolves
    \/ StoreSetItemResolves

InitStoreIdle ==
    /\ ops = [ c \in Callers |-> IdleOp ]
    /\ detail = Undefined
    /\ audit = NoAudit

-----------------------------------------------------------------------------
(* The service on its own: generateRecipe applied to a request             *)

IngredientPool ==
    { "", "Egg", "garlic powder", "garlic salt", "xyz", "rice", "tofu" }

IngredientLists ==
    UNION { [ 1..n -> IngredientPool ] : n \in 1..MaxIngredients }

ServiceRequests ==
    [ ingredients : IngredientLists,
      mealType    : { Undefined, Some("Lunch") },
      cookingTime : { Undefined },
      servings    : { Undefined, Some(5) } ]

InitScreen ==
    /\ ingredients = << >>
    /\ servings = "4"
    /\ isGenerating = FALSE
    /\ isImageProcessing = FALSE
    /\ imgClosure = Undefined
    /\ hpc = "idle"
    /\ hrecipe = Undefined
    /\ inFlight = 0

InitDb ==
    /\ db = IdleDb
    /\ savedRecipes = << >>
    /\ recipeHistory = << >>
    /\ lastAdded = Undefined

InitCalls ==
    /\ apiKey \in BOOLEAN
    /\ request = Undefined
    /\ svc = IdleCall
    /\ categorized = Undefined
    /\ estServings = Undefined
    /\ nutrServings = Undefined
    /\ nextId = 1

InitLibrary ==
    /\ vision = IdleVision
    /\ suggest = Undefined
    /\ calc = IdleCalc
    /\ analysis = Undefined
    /\ conv = Undefined
    /\ InitStoreIdle

InitService ==
    /\ InitCalls
    /\ InitScreen
    /\ InitDb
    /\ InitLibrary

CallGenerateRecipe ==
    /\ svc.pc = "idle"
    /\ \E req \in ServiceRequests, pattern \in NamePatterns :
         generateRecipe(req, pattern, FALSE, isGenerating, inFlight)
    /\ UNCHANGED << screenVars, storageVars, libraryVars >>

NextService ==
    \/ CallGenerateRecipe
    \/ PrimaryResponds
    \/ AlternativeResponds

SpecService ==
    InitService /\ [][NextService]_vars

-----------------------------------------------------------------------------
(* The application: the generator screen, the service and the database     *)

Init ==
    InitService

Next ==
    \/ AddIngredient
    \/ RemoveIngredient
    \/ SetServings
    \/ PickImage
    \/ ImageRecognized
    \/ PressGenerate
    \/ PrimaryResponds
    \/ AlternativeResponds
    \/ GetItemResolves
    \/ SetItemResolves

Spec ==
    Init /\ [][Next]_vars

\* weak fairness of AlternativeResponds, written out: the action is enabled
\* exactly while the service is suspended at its fetch
AlternativeSettles ==
    []<>(svc.pc # "alternative") \/ []<><< AlternativeResponds >>_vars

\* every awaited call settles: the two HTTP calls of the service, the
\* storage reads and writes, and the recognition
Settling ==
    /\ WF_vars(PrimaryResponds)
    /\ AlternativeSettles
    /\ WF_vars(GetItemResolves)
    /\ WF_vars(SetItemResolves)
    /\ WF_vars(ImageRecognized)

SpecFair ==
    Init /\ [][Next]_vars /\ Settling

-----------------------------------------------------------------------------
(* DatabaseService.addToRecipeHistory on its own                           *)

\* the history after n calls with the fresh ids 1, ..., n
historyAfter(n) ==
    [ k \in 1..n |-> n - k + 1 ]

\* ids at the front, in the middle and at the end of a full history, and
\* ids it does not hold
HistoryIds ==
    { 1, 2, HistoryLimit - 1, HistoryLimit, HistoryLimit + 1, HistoryLimit + 2 }

InitHistory ==
    /\ InitCalls
    /\ InitScreen
    /\ InitLibrary
    /\ db = IdleDb
    /\ savedRecipes = << >>
    /\ \E n \in { 0, HistoryLimit - 1, HistoryLimit } :
         /\ recipeHistory = historyAfter(n)
         /\ lastAdded = IF n = 0 THEN Undefined ELSE Some([ id |-> n, result |-> TRUE ])

CallAddToRecipeHistory ==
    /\ db.pc = "idle"
    /\ \E recipeId \in HistoryIds : db' = DbCall("addToRecipeHistory", recipeId)
    /\ UNCHANGED << svcVars, svc, screenVars, storageVars, libraryVars >>
    /\ UNCHANGED << nutrServings, isGenerating, hpc, hrecipe, inFlight >>

NextHistory ==
    \/ CallAddToRecipeHistory
    \/ GetItemResolves
    \/ SetItemResolves

SpecHistory ==
    InitHistory /\ [][NextHistory]_vars

-----------------------------------------------------------------------------
(* IngredientRecognitionService.recognizeIngredients on its own            *)

InitVision ==
    /\ InitCalls
    /\ ~ apiKey
    /\ InitScreen
    /\ InitDb
    /\ suggest = Undefined
    /\ calc = IdleCalc
    /\ analysis = Undefined
    /\ conv = Undefined
    /\ InitStoreIdle
    /\ \E key \in BOOLEAN : vision = [ IdleVision EXCEPT !.key = key ]

NextVision ==
    \/ CallRecognizeIngredients
    \/ GoogleResponds
    \/ AzureResponds
    \/ ClarifaiResponds
    \/ LocalModelResolves

SpecVision ==
    InitVision /\ [][NextVision]_vars

-----------------------------------------------------------------------------
(* NutritionCalculatorService.calculateRecipeNutrition on its own, for     *)
(* either implementation                                                   *)

InitNutrition ==
    /\ InitCalls
    /\ ~ apiKey
    /\ InitScreen
    /\ InitDb
    /\ vision = IdleVision
    /\ suggest = Undefined
    /\ analysis = Undefined
    /\ conv = Undefined
    /\ InitStoreIdle
    /\ calc \in { IdleCalc, [ IdleCalc EXCEPT !.impl = "enhanced" ] }
               \cup { [ IdleCalc EXCEPT !.impl = "enhanced", !.usdaKey = TRUE, !.usda = answer ] :
                        answer \in UsdaAnswers }

NextNutrition ==
    \/ CallCalculateRecipeNutrition
    \/ UsdaSearchResponds
    \/ UsdaFoodResponds

SpecNutrition ==
    InitNutrition /\ [][NextNutrition]_vars

-----------------------------------------------------------------------------
(* getDetailedNutritionAnalysis on its own                                 *)

InitAnalysis ==
    /\ InitCalls
    /\ ~ apiKey
    /\ InitScreen
    /\ InitDb
    /\ vision = IdleVision
    /\ suggest = Undefined
    /\ calc = IdleCalc
    /\ conv = Undefined
    /\ InitStoreIdle
    /\ \E nutrition \in AnalysisInputs : analysis = Analysing(nutrition)

NextAnalysis ==
    CallGetDetailedNutritionAnalysis

SpecAnalysis ==
    InitAnalysis /\ [][NextAnalysis]_vars

-----------------------------------------------------------------------------
(* getIngredientSuggestions on its own                                     *)

InitSuggest ==
    /\ InitCalls
    /\ ~ apiKey
    /\ InitScreen
    /\ InitDb
    /\ vision = IdleVision
    /\ calc = IdleCalc
    /\ analysis = Undefined
    /\ conv = Undefined
    /\ InitStoreIdle
    /\ \E input \in SuggestInputs : suggest = Suggesting(input)

NextSuggest ==
    CallGetIngredientSuggestions

SpecSuggest ==
    InitSuggest /\ [][NextSuggest]_vars

-----------------------------------------------------------------------------
(* DatabaseService calls made side by side                                 *)

InitStore ==
    /\ InitCalls
    /\ ~ apiKey
    /\ InitScreen
    /\ InitDb
    /\ InitLibrary

NextStore ==
    StoreNext

SpecStore ==
    InitStore /\ [][NextStore]_vars

-----------------------------------------------------------------------------
(* convertToGrams on its own                                               *)

InitConvert ==
    /\ InitCalls
    /\ ~ apiKey
    /\ InitScreen
    /\ InitDb
    /\ vision = IdleVision
    /\ suggest = Undefined
    /\ calc = IdleCalc
    /\ analysis = Undefined
    /\ InitStoreIdle
    /\ \E impl \in { "basic", "enhanced" }, quantity \in QuantityTexts, unit \in UnitTexts :
         conv = Converting(impl, quantity, unit)

NextConvert ==
    CallConvertToGrams

SpecConvert ==
    InitConvert /\ [][NextConvert]_vars

-----------------------------------------------------------------------------
(* Properties of the service (SpecService)                                 *)

Count(list, x) ==
    Len(SelectSeq(list, LAMBDA y : y = x))

Range(list) ==
    { list[k] : k \in 1..Len(list) }

Last(list) ==
    list[Len(list)]

ingredientNames(recipe) ==
    [ k \in 1..Len(recipe.ingredients) |-> recipe.ingredients[k].name ]

SameElements(a, b) ==
    /\ Len(a) = Len(b)
    /\ \A x \in Range(a) \cup Range(b) : Count(a, x) = Count(b, x)

ServiceDone ==
    svc.pc = "done"

ServiceRecipe ==
    svc.result[1].data[1]

\* C1: for every non-empty ingredient list and every combination of outcomes
\* of the primary call and of the alternate provider, generateRecipe
\* resolves with success = true and a recipe.
C1Theorem ==
    /\ svc.pc \in { "idle", "primary", "alternative", "done" }
    /\ ServiceDone =>
         /\ request # Undefined
         /\ Len(request[1].ingredients) >= 1
         /\ svc.result # Undefined
         /\ svc.result[1].success
         /\ svc.result[1].data # Undefined

\* both providers failed and the call still resolved with a recipe
C1Witness ==
    /\ ServiceDone
    /\ svc.primary # Undefined /\ svc.primary[1].kind = "network"
    /\ svc.alternative # Undefined /\ svc.alternative[1].kind = "notok"
    /\ svc.result[1].success

\* C2 (as claimed): when the primary call succeeds with content that is not
\* parseable as a recipe, the result is the composer's recipe for the
\* request: its ingredients are the request's, its steps and tags composed.
C2Claim ==
    ( /\ ServiceDone
      /\ svc.primary # Undefined
      /\ svc.primary[1].kind = "ok"
      /\ ~ parses(svc.primary[1].content) )
    => /\ SameElements(ingredientNames(ServiceRecipe), request[1].ingredients)
       /\ ServiceRecipe.steps
            = generateCookingSteps(categorizeIngredients(request[1].ingredients),
                                   requestCookingTime(request[1]))
       /\ ServiceRecipe.tags
            = generateTags(categorizeIngredients(request[1].ingredients),
                           requestMealType(request[1]))

FailedPrimaryKinds ==
    { "network", "status", "nochoices" }

AlternativeUsable ==
    /\ svc.alternative # Undefined
    /\ svc.alternative[1].kind = "ok"
    /\ svc.alternative[1].body.kind = "json"

\* C3: the sources are tried in the order primary, alternate, composer; the
\* alternate only after the primary call failed, the composer only after the
\* alternate failed or returned an unusable response (or directly without an
\* API key), and none once a source has produced a recipe.
C3Theorem ==
    /\ svc.calls \in { << >>, << "composer" >>, << "primary" >>,
                       << "primary", "alternate" >>,
                       << "primary", "alternate", "composer" >> }
    /\ svc.calls = << "composer" >> => ~ apiKey
    /\ (svc.calls # << >> /\ svc.calls[1] = "primary") => apiKey
    /\ Len(svc.calls) >= 2 =>
         /\ svc.primary # Undefined
         /\ svc.primary[1].kind \in FailedPrimaryKinds
    /\ Len(svc.calls) = 3 => ~ AlternativeUsable
    /\ (ServiceDone /\ svc.calls = << "primary" >>) => svc.primary[1].kind = "ok"
    /\ (ServiceDone /\ svc.calls = << "primary", "alternate" >>) => AlternativeUsable

\* the whole chain ran: the alternate answered with text that holds no recipe
C3Witness ==
    /\ ServiceDone
    /\ svc.calls = << "primary", "alternate", "composer" >>
    /\ svc.alternative[1].kind = "ok"
    /\ svc.alternative[1].body.kind = "text"

ComposerRan ==
    /\ ServiceDone
    /\ Last(svc.calls) = "composer"

\* C4: the composer always returns a recipe with at least one step and at
\* least one tag, for every non-empty ingredient list.
C4Theorem ==
    ComposerRan =>
        /\ svc.result[1].success
        /\ svc.result[1].data # Undefined
        /\ Len(ServiceRecipe.steps) >= 1
        /\ Len(ServiceRecipe.tags) >= 1

\* the composer ran on a list of unrecognized strings only
C4Witness ==
    /\ ComposerRan
    /\ request[1].ingredients = << "xyz", "xyz" >>
    /\ categorized[1]["others"] = request[1].ingredients
    /\ Len(ServiceRecipe.steps) >= 1

BucketTotal(buckets) ==
    Len(buckets["proteins"]) + Len(buckets["vegetables"]) + Len(buckets["grains"])
    + Len(buckets["dairy"]) + Len(buckets["spices"]) + Len(buckets["others"])

\* C5: categorizeIngredients puts every input ingredient in exactly one of
\* the six buckets, and the bucket sizes add up to the input size.
C5Theorem ==
    categorized # Undefined =>
        /\ BucketTotal(categorized[1]) = Len(request[1].ingredients)
        /\ \A x \in Range(request[1].ingredients) :
             \E b \in BucketNames :
                /\ Count(categorized[1][b], x) = Count(request[1].ingredients, x)
                /\ \A other \in BucketNames \ { b } : Count(categorized[1][other], x) = 0

\* two ingredients that match keywords of different categories
C5Witness ==
    /\ categorized # Undefined
    /\ request[1].ingredients = << "garlic powder", "Egg" >>
    /\ categorized[1]["vegetables"] = << "garlic powder" >>
    /\ categorized[1]["proteins"] = << "Egg" >>

\* C6 (as claimed): the empty string is placed in the others bucket and in
\* no keyword bucket.
C6Claim ==
    (categorized # Undefined /\ "" \in Range(request[1].ingredients)) =>
        /\ "" \in Range(categorized[1]["others"])
        /\ \A b \in BucketNames \ { "others" } : "" \notin Range(categorized[1][b])

-----------------------------------------------------------------------------
(* Properties of the generator screen (Spec)                               *)

\* a step in which the handler passes its guard and calls the service
CallStarts ==
    inFlight' > inFlight

\* C7: after any sequence of add-ingredient, remove-ingredient and
\* image-recognition actions, AIRecipeService.generateRecipe is invoked only
\* with the screen's ingredient list and only when that list is not empty;
\* a press on generate with an empty list makes no service call.
C7Theorem ==
    [][ /\ CallStarts =>
             /\ Len(ingredients) >= 1
             /\ apiKey =>
                  /\ request' # Undefined
                  /\ request'[1].ingredients = ingredients
             /\ ~ apiKey =>
                  /\ hrecipe' # Undefined
                  /\ SameElements(ingredientNames(hrecipe'[1]), ingredients)
        /\ Len(ingredients) = 0 =>
             /\ ~ CallStarts
             /\ request' \in { request, Undefined }
             /\ svc.pc = "idle" => svc' = svc
        /\ request' # Undefined => Len(request'[1].ingredients) >= 1 ]_vars

\* a recipe was generated from a list built by typing and by recognition,
\* the list was emptied afterwards, and a press then did nothing
C7Witness ==
    /\ ~ apiKey
    /\ ingredients = << >>
    /\ ~ isGenerating
    /\ Len(savedRecipes) = 1
    /\ ingredientNames(savedRecipes[1]) = << "egg", "rice" >>

\* C8 (as claimed): every servings value that reaches the quantity
\* estimator (createIngredientsWithQuantities) and the nutrition calculation
\* (calculateRecipeNutrition) is an integer >= 1, whatever the text of the
\* servings field and whatever servings value an AI response carried.
C8Claim ==
    /\ estServings # Undefined => estServings[1] >= 1
    /\ nutrServings # Undefined => nutrServings[1] >= 1

\* C10: at most one run of the screen's generateRecipe handler, and so at
\* most one generation request, is in flight at any time; the busy flag is
\* set exactly while a run is in flight.
C10Theorem ==
    /\ inFlight \in { 0, 1 }
    /\ isGenerating <=> inFlight = 1
    /\ hpc # "idle" <=> inFlight = 1
    /\ svc.pc # "idle" => inFlight = 1

\* generate was pressed again while the request was with the primary
\* provider, and the press was ignored
C10Witness ==
    /\ inFlight = 1
    /\ hpc = "service"
    /\ svc.pc = "primary"
    /\ Len(ingredients) >= 1
    /\ generateDisabled

-----------------------------------------------------------------------------
(* Properties of the recipe history (SpecHistory)                          *)

NoDuplicates(list) ==
    \A i, j \in 1..Len(list) : list[i] = list[j] => i = j

-----------------------------------------------------------------------------
(* Properties of recognizeIngredients (SpecVision)                         *)

\* C11: recognizeIngredients returns success=true for every combination of
\* outcomes of the vision providers (Google with or without API key, Azure,
\* Clarifai, each succeeding, failing or throwing); a structured failure is
\* returned only if every fallback, including the local heuristic analysis,
\* is exhausted.
C11Theorem ==
    /\ vision.pc = "done" <=> vision.result # Undefined
    /\ vision.pc = "done" =>
         /\ vision.result[1].success
         /\ vision.result[1].data # Undefined
    /\ (vision.result # Undefined /\ ~ vision.result[1].success) =>
         /\ Len(vision.calls) >= 4
         /\ SubSeq(vision.calls, Len(vision.calls) - 3, Len(vision.calls))
              = << "azure", "clarifai", "local", "intelligent" >>

\* with a key, Google throws, Azure throws, Clarifai answers with an error
\* status, and the local model's selection is returned
C11Witness ==
    /\ vision.pc = "done"
    /\ vision.key
    /\ vision.google = Some([ kind |-> "throws" ])
    /\ vision.azure = Some([ kind |-> "throws" ])
    /\ vision.clarifai = Some([ kind |-> "notOk" ])
    /\ vision.calls = << "google", "azure", "clarifai", "local" >>
    /\ vision.result[1].success
    /\ vision.result[1].message = "Analyzed using local intelligence"
    /\ Len(vision.result[1].data[1].ingredients) = 7

-----------------------------------------------------------------------------
(* Properties of calculateRecipeNutrition (SpecNutrition)                  *)

\* the weight convertToGrams gives for the ingredient in the implementation
\* under test
gramsFor(ingredient) ==
    IF calc.impl = "basic"
    THEN convertToGrams(IF ingredient.quantity = "" THEN "100" ELSE ingredient.quantity,
                        IF ingredient.unit = "" THEN "g" ELSE ingredient.unit)
    ELSE quantityInGrams(ingredient)

\* per-100g facts times grams / 100, rounded as the implementation rounds
scaledFacts(base, grams) ==
    IF calc.impl = "basic" THEN scaleNutrition(base, grams) ELSE scaleEnhanced(base, grams)

\* C12: for every resolution path of an ingredient (exact table entry, fuzzy
\* match, category-based estimate, absolute default), the returned nutrition
\* equals the per-100g facts multiplied by grams/100, where grams is
\* convertToGrams of the ingredient's quantity and unit; no path returns the
\* per-100g facts unscaled.
C12Claim ==
    \A call \in calc.returned : \A k \in 1..Len(call.ingredients) :
      call.resolved[k].nutrition
        = scaledFacts(call.resolved[k].base, gramsFor(call.ingredients[k]))

\* the calls that returned the facts of the one-ingredient list of x at
\* servings 1
SingleCalls(x) ==
    { call \in calc.returned : call.servings = 1 /\ call.ingredients = << x >> }

\* C13: calculateRecipeNutrition is additive at servings=1: for all
\* ingredients A and B, every field of the result for [A,B] equals the sum of
\* that field in the result for [A] and in the result for [B].
C13Theorem ==
    \A ab \in calc.returned :
      (ab.servings = 1 /\ Len(ab.ingredients) = 2) =>
        \A a \in SingleCalls(ab.ingredients[1]), b \in SingleCalls(ab.ingredients[2]) :
          \A field \in DOMAIN ab.result :
            ab.result[field] = a.result[field] + b.result[field]

\* the three calls for a table ingredient and an unknown one have returned,
\* each with facts that are not zero
C13Witness ==
    \E ab \in calc.returned :
      /\ ab.servings = 1
      /\ Len(ab.ingredients) = 2
      /\ ab.ingredients[1].name = " Tomato"
      /\ ab.ingredients[2].name = "xyz"
      /\ SingleCalls(ab.ingredients[1]) # {}
      /\ SingleCalls(ab.ingredients[2]) # {}
      /\ \A call \in SingleCalls(ab.ingredients[1]) \cup SingleCalls(ab.ingredients[2]) :
           call.result.calories > 0
      /\ ab.result.calories > 0

RECURSIVE sumResolved(_, _)
sumResolved(resolved, k) ==
    IF k > Len(resolved) THEN ZeroNutrition
    ELSE addNutrition(resolved[k].nutrition, sumResolved(resolved, k + 1))

\* C14: for every ingredient list with non-negative table entries and every
\* integer servings value (including 0 and negative values),
\* calculateRecipeNutrition never divides by zero and every field of its
\* result is >= 0: for servings below 2 the result is the undivided total.
C14Theorem ==
    \A call \in calc.returned :
      /\ \A field \in DOMAIN call.result : call.result[field] >= 0
      /\ call.servings <= 1 => call.result = sumResolved(call.resolved, 1)

\* calls with servings 0 and with servings -2 have returned a total that is
\* not zero
C14Witness ==
    /\ \E call \in calc.returned : call.servings = 0 /\ call.result.calories > 0
    /\ \E call \in calc.returned :
         /\ call.servings = 0 - 2
         /\ Len(call.ingredients) = 2
         /\ call.result.protein > 0

-----------------------------------------------------------------------------
(* Properties of getDetailedNutritionAnalysis (SpecAnalysis)               *)

\* C15: for every nutrition argument with non-negative fields the returned
\* healthScore lies between 0 and 100 inclusive.
C15Theorem ==
    (/\ analysis # Undefined
     /\ analysis[1].result # Undefined
     /\ \A field \in DOMAIN analysis[1].nutrition : analysis[1].nutrition[field] >= 0)
        => analysis[1].result[1].healthScore \in 0..100

\* a call whose adjustments are all penalties
C15Witness ==
    /\ analysis # Undefined
    /\ analysis[1].result # Undefined
    /\ analysis[1].nutrition.calories > 600
    /\ analysis[1].nutrition.sugar > 150
    /\ analysis[1].nutrition.sodium > 800
    /\ fatPercentage(analysis[1].nutrition) = "high"
    /\ analysis[1].result[1].healthScore = 25

\* C16: for the all-zero nutrition argument the returned healthScore is the
\* baseline 50.
C16Claim ==
    (/\ analysis # Undefined
     /\ analysis[1].result # Undefined
     /\ analysis[1].nutrition = N(0, 0, 0, 0, 0, 0, 0))
        => analysis[1].result[1].healthScore = 50

-----------------------------------------------------------------------------
(* Properties of getIngredientSuggestions (SpecSuggest)                    *)

suggested ==
    suggest # Undefined /\ suggest[1].result # Undefined

\* 1: the name starts with the input, 2: it only contains it, 3: it is a
\* contextual suggestion, 4: it is a category suggestion
priority(name, normalizedInput) ==
    IF startsWith(toLowerCase(name), normalizedInput) THEN 1
    ELSE IF includes(toLowerCase(name), normalizedInput) THEN 2
    ELSE IF arrayIncludes(getContextualSuggestions(normalizedInput), name) THEN 3
    ELSE 4

inPriorityOrder(list, normalizedInput) ==
    \A i, j \in 1..Len(list) :
        i < j => priority(list[i], normalizedInput) <= priority(list[j], normalizedInput)

\* C17: the returned list holds no name twice, and its entries are in
\* priority order: names starting with the input, names only containing it,
\* contextual suggestions, category suggestions.
C17Claim ==
    suggested =>
        /\ \A i, j \in 1..Len(suggest[1].result[1]) :
              i # j => suggest[1].result[1][i] # suggest[1].result[1][j]
        /\ inPriorityOrder(suggest[1].result[1], trim(toLowerCase(suggest[1].input)))

\* C18: an input whose trimmed length is below 2 gets the empty list, every
\* other input at most 8 suggestions.
C18Theorem ==
    suggested =>
        /\ Len(trim(suggest[1].input)) < 2 => suggest[1].result[1] = << >>
        /\ Len(suggest[1].result[1]) <= 8

\* a call that collected more than 8 suggestions
C18Witness ==
    /\ suggested
    /\ Len(getIngredientSuggestionsUnsliced(suggest[1].input)) > 8
    /\ Len(suggest[1].result[1]) = 8

-----------------------------------------------------------------------------
(* Properties of the composer's steps and cuisine (SpecService)            *)

\* position of a step of the composer in the order the claim gives
stepRank(kind) ==
    CASE kind = "prep"            -> 1
      [] kind = "cook-protein"    -> 2
      [] kind = "beat-eggs"       -> 2
      [] kind = "hard-vegetables" -> 3
      [] kind = "soft-vegetables" -> 4
      [] kind = "rice"            -> 5
      [] kind = "pasta"           -> 5
      [] kind = "season"          -> 6
      [] kind = "stir"            -> 7
      [] kind = "serve"           -> 8
      [] OTHER                    -> 0

hasStep(steps, rank) ==
    \E k \in 1..Len(steps) : stepRank(steps[k].kind) = rank

anyNamed(list, word) ==
    \E k \in 1..Len(list) : includes(toLowerCase(list[k]), word)

\* C19: the step list of the composer starts with the prep step, ends with
\* the closing step, and holds between them, in this order, a protein step
\* whenever the protein bucket is non-empty, the hard-vegetable step, the
\* soft-vegetable step, a grain step when rice or pasta is present and the
\* seasoning step when spices are present.
C19Claim ==
    ComposerRan =>
        /\ stepRank(ServiceRecipe.steps[1].kind) = 1
        /\ stepRank(ServiceRecipe.steps[Len(ServiceRecipe.steps)].kind) = 8
        /\ \A i, j \in 1..Len(ServiceRecipe.steps) :
              i < j => stepRank(ServiceRecipe.steps[i].kind) < stepRank(ServiceRecipe.steps[j].kind)
        /\ Len(categorized[1]["proteins"]) > 0 => hasStep(ServiceRecipe.steps, 2)
        /\ (anyNamed(categorized[1]["grains"], "rice") \/ anyNamed(categorized[1]["grains"], "pasta"))
              => hasStep(ServiceRecipe.steps, 5)
        /\ Len(categorized[1]["spices"]) > 0 => hasStep(ServiceRecipe.steps, 6)

\* the ingredient names of a recipe, lower-cased and joined
namesOf(recipe) ==
    join([ k \in 1..Len(recipe.ingredients) |-> toLowerCase(recipe.ingredients[k].name) ], " ")

cooccur(names, keywords) ==
    \A k \in 1..Len(keywords) : includes(names, keywords[k])

\* C20: the composer picks the first of Asian (soy, ginger, rice), Italian
\* (pasta, tomato, basil), Indian (cumin, coriander, turmeric) and Mexican
\* (lime, cilantro, chili) whose keywords all occur in the ingredient names,
\* and 'International' when no keyword set occurs together.
C20Claim ==
    ComposerRan =>
        ServiceRecipe.cuisine =
            (IF cooccur(namesOf(ServiceRecipe), << "soy", "ginger", "rice" >>) THEN "Asian"
             ELSE IF cooccur(namesOf(ServiceRecipe), << "pasta", "tomato", "basil" >>) THEN "Italian"
             ELSE IF cooccur(namesOf(ServiceRecipe), << "cumin", "coriander", "turmeric" >>) THEN "Indian"
             ELSE IF cooccur(namesOf(ServiceRecipe), << "lime", "cilantro", "chili" >>) THEN "Mexican"
             ELSE "International")

-----------------------------------------------------------------------------
(* Properties of the resolution order (SpecNutrition)                      *)

exactRows(name) ==
    { k \in 1..Len(enhancedNutritionDB) : enhancedNutritionDB[k][1] = name }

\* the fuzzy candidates no other candidate has a higher score than
bestRows(name) ==
    { c \in matchCandidates(name) :
        \A j \in matchCandidates(name) :
            ~ scoreGreater(matchScore(enhancedNutritionDB[j][1], name),
                           matchScore(enhancedNutritionDB[c][1], name)) }

\* for each ingredient of the pool, by its lower-cased trimmed name: the
\* rows of the exact lookup, the best fuzzy rows and the estimate
Answers ==
    [ ingredient \in NutritionPool |->
        [ exact    |-> exactRows(trim(toLowerCase(ingredient.name))),
          fuzzy    |-> bestRows(trim(toLowerCase(ingredient.name))),
          estimate |-> IF hasCategory(trim(toLowerCase(ingredient.name)))
                       THEN getIntelligentNutritionEstimate(trim(toLowerCase(ingredient.name)))
                       ELSE DefaultEstimate ] ]

\* the facts come from the first source that has an answer
resolvedInOrder(answers, resolution) ==
    IF answers.exact # {}
    THEN \E k \in answers.exact : resolution.base = enhancedNutritionDB[k][2]
    ELSE IF answers.fuzzy # {}
    THEN \E c \in answers.fuzzy : resolution.base = enhancedNutritionDB[c][2]
    ELSE \/ resolution.source \in { "usda", "cache" }
         \/ resolution.base = answers.estimate

\* C21: an ingredient is resolved by the first source that has an answer, in
\* the order exact lookup of the lower-cased trimmed name, fuzzy match with a
\* score above 0.6, category estimate, fixed default; among the fuzzy
\* candidates one with the highest score is used.  (The optional USDA
\* lookup is asked only when the table and the fuzzy match have no answer.)
C21Theorem ==
    calc.impl = "enhanced" =>
        \A call \in calc.returned :
            \A k \in 1..Len(call.ingredients) :
                resolvedInOrder(Answers[call.ingredients[k]], call.resolved[k])

\* a name with two fuzzy candidates, the one with the lower score first in
\* the table, resolved to the one with the higher score
C21Witness ==
    /\ calc.impl = "enhanced"
    /\ \E call \in calc.returned :
         /\ call.ingredients[1].name = "potato sweet"
         /\ Answers[call.ingredients[1]].exact = {}
         /\ call.resolved[1].base = enhancedLookup("sweet potato")[1]
         /\ call.resolved[1].base # enhancedLookup("potato")[1]

-----------------------------------------------------------------------------
(* Properties of the quantity estimator (SpecService)                      *)

\* the policy table: keywords, divisor of servings (0: fixed quantity),
\* fixed quantity, unit
PolicyRows ==
    << << << "salt", "pepper" >>, 0, "1", "tsp" >>,
       << << "garlic", "ginger" >>, 0, "2", "cloves" >>,
       << << "onion", "tomato", "potato" >>, 2, "", "medium" >>,
       << << "rice", "pasta" >>, 4, "", "cup" >>,
       << << "oil", "butter" >>, 0, "2", "tbsp" >>,
       << << >>, 2, "", "piece" >> >>

rowMatches(row, name) ==
    row[1] = << >> \/ \E k \in 1..Len(row[1]) : includes(toLowerCase(name), row[1][k])

firstRow(name) ==
    PolicyRows[CHOOSE r \in 1..Len(PolicyRows) :
                 /\ rowMatches(PolicyRows[r], name)
                 /\ \A q \in 1..(r - 1) : ~ rowMatches(PolicyRows[q], name)]

\* the smallest whole number not below a / b, as a text
ceilText(a, b) ==
    toString(CHOOSE n \in 0..a : n * b >= a /\ (n - 1) * b < a)

followsPolicy(ingredient, servingCount) ==
    /\ ingredient.unit = firstRow(ingredient.name)[4]
    /\ ingredient.quantity = IF firstRow(ingredient.name)[2] = 0
                              THEN firstRow(ingredient.name)[3]
                              ELSE ceilText(servingCount, firstRow(ingredient.name)[2])

\* C22: the estimator applies the first matching row of its policy table:
\* a garlic or ginger name that matches no earlier row gets "2" "cloves"
\* whatever the servings, and a servings-dependent quantity is
\* ceil(servings/2) or ceil(servings/4) as its row states.
C22Theorem ==
    ComposerRan =>
        \A k \in 1..Len(ServiceRecipe.ingredients) :
            followsPolicy(ServiceRecipe.ingredients[k], ServiceRecipe.servings)

\* five servings, a garlic name and a name that matches the first two rows
C22Witness ==
    /\ ComposerRan
    /\ ServiceRecipe.servings = 5
    /\ \E k \in 1..Len(ServiceRecipe.ingredients) :
         /\ ServiceRecipe.ingredients[k].name = "garlic salt"
         /\ ServiceRecipe.ingredients[k].unit = "tsp"
    /\ \E k \in 1..Len(ServiceRecipe.ingredients) :
         /\ ServiceRecipe.ingredients[k].name = "garlic powder"
         /\ ServiceRecipe.ingredients[k].quantity = "2"
         /\ ServiceRecipe.ingredients[k].unit = "cloves"

-----------------------------------------------------------------------------
(* Properties of convertToGrams (SpecConvert)                              *)

converted ==
    conv # Undefined /\ conv[1].result # Undefined

isNumericChar(c) ==
    isDigit(c) \/ c = "."

\* the longest prefix of digits and dots
leadingNumericText(s) ==
    SubSeq(s, 1, CHOOSE n \in 0..Len(s) :
                   /\ \A i \in 1..n : isNumericChar(charAt(s, i))
                   /\ n < Len(s) => ~ isNumericChar(charAt(s, n + 1)))

\* the number at the start of the quantity in thousandths, 100 when there is
\* none
leadingNumber(quantity) ==
    IF parseFloatThousandths(leadingNumericText(trimStart(quantity))) = Undefined
    THEN 100000
    ELSE parseFloatThousandths(leadingNumericText(trimStart(quantity)))[1]

\* grams per unit in ten-thousandths, for the units the statement names
statedFactor(unit) ==
    CASE unit = "cup"                   -> 2400000
      [] unit = "tbsp"                  -> 150000
      [] unit \in { "clove", "cloves" } -> 30000
      [] OTHER                          -> 1000000

\* C23: convertToGrams(quantity, unit) is n times the factor of the unit:
\* 240 for cup, 15 for tbsp, 3 for clove(s), 100 for an unknown unit; n is
\* the number at the start of quantity, and 100 only when quantity has no
\* parseable number, so that "0" gives 0 grams.
C23Claim ==
    (/\ converted
     /\ \/ trim(toLowerCase(conv[1].unit)) \in { "cup", "tbsp", "clove", "cloves" }
        \/ trim(toLowerCase(conv[1].unit)) \notin (DOMAIN conversions \cup DOMAIN enhancedConversions))
        => conv[1].result[1] = gramsOf(leadingNumber(conv[1].quantity),
                                       statedFactor(trim(toLowerCase(conv[1].unit))))

-----------------------------------------------------------------------------
(* The saved-recipes collection under calls made one after another and     *)
(* side by side                                                            *)

\* the recipes stored under an id
storedUnder(id) ==
    SelectSeq(savedRecipes, LAMBDA recipe : recipe.id = id)

\* the storage holds sequences
storeTyped ==
    Len(savedRecipes) >= 0 /\ Len(recipeHistory) >= 0

\* no DatabaseService call is running
quiet ==
    \A c \in Callers : ops[c].pc = "idle"

\* C24: the saved-recipes collection holds at most one recipe per recipe id,
\* whatever generate, save, rate and delete actions came before; a recipe that
\* was generated and then saved from its detail screen is stored once.
C24Claim ==
    \A k \in 1..Len(savedRecipes) : Len(storedUnder(savedRecipes[k].id)) <= 1

\* C25: once the overlapping calls have returned, every recipe whose
\* saveRecipe returned true is in the collection unless deleteRecipe was
\* called for it.
C25Claim ==
    quiet => \A id \in audit.savedOk \ audit.deleted : storedUnder(id) # << >>

\* the call of caller c returns in this step
returns(c) ==
    ops[c].pc # "idle" /\ audit'.last # Undefined /\ audit'.last[1].caller = c

\* what a rateRecipe call that no other call has written across returns and
\* leaves in the collection
ratedAsStated(c) ==
    LET id == ops[c].arg.id
        at == findIndex(savedRecipes, id)
    IN  IF at = 0
        THEN /\ audit'.last[1].result = FALSE
             /\ savedRecipes' = savedRecipes
        ELSE /\ audit'.last[1].result = TRUE
             /\ Len(savedRecipes') = Len(savedRecipes)
             /\ \A k \in 1..Len(savedRecipes) :
                  savedRecipes'[k] =
                    IF k = at THEN [ savedRecipes[k] EXCEPT !.rating = ops[c].rating ]
                    ELSE savedRecipes[k]

C27WitnessAbsent ==
    /\ audit.last # Undefined
    /\ audit.last[1].op = "rateRecipe"
    /\ audit.last[1].clean
    /\ audit.last[1].result = FALSE
    /\ storedUnder(audit.last[1].arg.id) = << >>

\* the ids of the history list, as the call read it, that are stored now
storedIds(historyIds) ==
    SelectSeq(historyIds, LAMBDA id : storedUnder(id) # << >>)

\* C28: getRecipeHistory returns the recipes of the history list that are in
\* the saved-recipes collection, in the order of the history list (most
\* recent first); an id that is not stored is skipped and gives no undefined
\* entry.
C28Theorem ==
    [][ \A c \in Callers :
          (ops[c].op = "getRecipeHistory" /\ returns(c)) =>
            LET result == audit'.last[1].result
                kept == storedIds(ops[c].read[1])
            IN  /\ Len(result) = Len(kept)
                /\ \A k \in 1..Len(result) :
                     /\ result[k] # Undefined
                     /\ result[k][1].id = kept[k]
                     /\ \E j \in 1..Len(savedRecipes) : savedRecipes[j] = result[k][1] ]_vars

\* a history of two ids, the recipe of one of them deleted, gave one recipe
C28Witness ==
    /\ audit.last # Undefined
    /\ audit.last[1].op = "getRecipeHistory"
    /\ Len(recipeHistory) = 2
    /\ Len(audit.last[1].result) = 1
    /\ audit.last[1].result[1][1].id = recipeHistory[2]
    /\ storedUnder(recipeHistory[1]) = << >>

-----------------------------------------------------------------------------
(* The ingredient list while a recognition is pending                      *)

\* the recognition result merged into the list of the moment it arrives
mergedIntoCurrent(result) ==
    IF result.success /\ newIngredients(result.ingredients, ingredients) # << >>
    THEN ingredients \o lowerAll(newIngredients(result.ingredients, ingredients))
    ELSE ingredients

\* C26: when the recognition result arrives it is merged into the ingredient
\* list of that moment, so that what the user added or removed while the
\* recognition was pending stays added or removed.
C26Claim ==
    [][ (imgClosure # Undefined /\ imgClosure' = Undefined) =>
          \E result \in RecognitionResults : ingredients' = mergedIntoCurrent(result) ]_vars

-----------------------------------------------------------------------------
(* What a successful recognizeIngredients result holds (SpecVision)        *)

\* C29: a recognizeIngredients result with success=true lists at least one
\* ingredient, whichever provider produced it, and has as many confidence
\* values as ingredients.
C29Claim ==
    (vision.result # Undefined /\ vision.result[1].success) =>
      /\ vision.result[1].data # Undefined
      /\ Len(vision.result[1].data[1].ingredients) >= 1
      /\ Len(vision.result[1].data[1].confidence)
           = Len(vision.result[1].data[1].ingredients)

-----------------------------------------------------------------------------
(* The busy flags of the generator screen (SpecFair)                       *)

\* C30: once a generation or an image recognition has started, isGenerating
\* (isImageProcessing) becomes false again, whether the call succeeds,
\* returns a failure or throws.
C30Theorem ==
    /\ isGenerating ~> ~ isGenerating
    /\ isImageProcessing ~> ~ isImageProcessing

\* a generation ran to its end, the recipe is stored, and both flags are
\* false with no handler left running
C30Witness ==
    /\ ~ isGenerating
    /\ ~ isImageProcessing
    /\ hpc = "idle"
    /\ inFlight = 0
    /\ Len(savedRecipes) >= 1
    /\ Len(recipeHistory) >= 1

====
